---------------------------- MODULE Spec2Model ----------------------------
(***************************************************************************)
(* Model of the pm workflow execution engine: the template renderer and    *)
(* condition evaluator (template.ts), the command executor (runner.ts),    *)
(* the verification collaborator (verify.ts), the step executor and the    *)
(* control-flow engine (workflow.ts) and the run driver (inbox.ts).         *)
(*                                                                         *)
(* JavaScript strings are sequences of one-character strings; JavaScript   *)
(* values are records [t |-> type tag, v |-> value].                       *)
(***************************************************************************)
EXTENDS Integers, Sequences, FiniteSets, TLC

(***************************************************************************)
(* JavaScript values                                                       *)
(***************************************************************************)
Undefined == [t |-> "undefined", v |-> 0]
Null == [t |-> "null", v |-> 0]
NaN == [t |-> "nan", v |-> 0]
Bool(b) == [t |-> "boolean", v |-> b]
\* A number is <<negative, integer part, fraction digits>>; -0 is 0.
NumV(neg, ip, fr) == [t |-> "number", v |-> <<neg /\ (ip # 0 \/ fr # <<>>), ip, fr>>]
Num(n) == IF n < 0 THEN NumV(TRUE, -n, <<>>) ELSE NumV(FALSE, n, <<>>)
Str(s) == [t |-> "string", v |-> s]
\* An object is the sequence of its own properties <<key, value>>, in insertion order.
Obj(props) == [t |-> "object", v |-> props]
\* A built-in function, known by its name
Fn(name) == [t |-> "function", v |-> name]

\* The === operator: equal type and equal value, NaN unequal to itself. Objects
\* compare by reference: the template data holds one object (verify), reached
\* by one path, so two object operands are the same object.
StrictEq(a, b) ==
    /\ a.t = b.t
    /\ a.t # "nan"
    /\ a.v = b.v

\* Boolean(v)
Truthy(a) ==
    CASE a.t \in {"undefined", "null", "nan"} -> FALSE
      [] a.t = "boolean" -> a.v
      [] a.t = "number" -> a.v[2] # 0 \/ a.v[3] # <<>>
      [] a.t = "string" -> a.v # <<>>
      [] OTHER -> TRUE

(***************************************************************************)
(* Characters and strings                                                  *)
(***************************************************************************)
Digits == <<"0", "1", "2", "3", "4", "5", "6", "7", "8", "9">>
DigitChars == {Digits[i] : i \in 1..10}
LetterChars ==
    {"a", "b", "c", "d", "e", "f", "g", "h", "i", "j", "k", "l", "m", "n", "o",
     "p", "q", "r", "s", "t", "u", "v", "w", "x", "y", "z", "_"}
\* \w of the placeholder pattern
UpperChars ==
    {"A", "B", "C", "D", "E", "F", "G", "H", "I", "J", "K", "L", "M", "N", "O",
     "P", "Q", "R", "S", "T", "U", "V", "W", "X", "Y", "Z"}
\* \w of the placeholder pattern
WordChars == LetterChars \cup UpperChars \cup DigitChars
\* \s of the placeholder pattern, and what String.prototype.trim removes
SpaceChars == {" ", "\t", "\n"}

DigitVal(c) == CHOOSE d \in 0..9 : Digits[d + 1] = c

RECURSIVE NatToStr(_)
NatToStr(n) == IF n < 10 THEN <<Digits[n + 1]>> ELSE NatToStr(n \div 10) \o <<Digits[(n % 10) + 1]>>

\* String(n) for an integer n
IntToStr(n) == IF n < 0 THEN <<"-">> \o NatToStr(-n) ELSE NatToStr(n)

\* String(x) for a number value <<negative, integer part, fraction digits>>
NumToStr(x) ==
    (IF x[1] THEN <<"-">> ELSE <<>>) \o NatToStr(x[2])
    \o (IF x[3] = <<>> THEN <<>> ELSE <<".">> \o x[3])

RECURSIVE StrToNat(_)
StrToNat(s) == IF s = <<>> THEN 0 ELSE 10 * StrToNat(SubSeq(s, 1, Len(s) - 1)) + DigitVal(s[Len(s)])

StartsWith(s, c) == Len(s) >= 1 /\ s[1] = c
EndsWith(s, c) == Len(s) >= 1 /\ s[Len(s)] = c

RECURSIVE TrimLeft(_)
TrimLeft(s) == IF s # <<>> /\ s[1] \in SpaceChars THEN TrimLeft(Tail(s)) ELSE s

RECURSIVE TrimRight(_)
TrimRight(s) ==
    IF s # <<>> /\ s[Len(s)] \in SpaceChars THEN TrimRight(SubSeq(s, 1, Len(s) - 1)) ELSE s

Trim(s) == TrimRight(TrimLeft(s))

\* s.indexOf(two-character needle), 1-based; 0 when absent (JavaScript: -1)
IndexOf2(s, a, b) ==
    LET hits == {i \in 1..(Len(s) - 1) : s[i] = a /\ s[i + 1] = b}
    IN  IF hits = {} THEN 0 ELSE CHOOSE i \in hits : \A j \in hits : i <= j

\* s.split(".")
RECURSIVE SplitDots(_)
SplitDots(s) ==
    LET dots == {i \in 1..Len(s) : s[i] = "."}
    IN  IF dots = {} THEN <<s>>
        ELSE LET d == CHOOSE i \in dots : \A j \in dots : i <= j
             IN  <<SubSeq(s, 1, d - 1)>> \o SplitDots(SubSeq(s, d + 1, Len(s)))

\* Property names of the template data
K_slug == <<"s", "l", "u", "g">>
K_project == <<"p", "r", "o", "j", "e", "c", "t">>
K_idea == <<"i", "d", "e", "a">>
K_project_dir == <<"p", "r", "o", "j", "e", "c", "t", "_", "d", "i", "r">>
K_round == <<"r", "o", "u", "n", "d">>
K_last_exit_code == <<"l", "a", "s", "t", "_", "e", "x", "i", "t", "_", "c", "o", "d", "e">>
K_verify == <<"v", "e", "r", "i", "f", "y">>
K_passed == <<"p", "a", "s", "s", "e", "d">>
K_command == <<"c", "o", "m", "m", "a", "n", "d">>
K_code == <<"c", "o", "d", "e">>
K_skipped == <<"s", "k", "i", "p", "p", "e", "d">>
K_reason == <<"r", "e", "a", "s", "o", "n">>
\* Property names every object inherits from Object.prototype (two of them)
K_constructor == <<"c", "o", "n", "s", "t", "r", "u", "c", "t", "o", "r">>
K_toString == <<"t", "o", "S", "t", "r", "i", "n", "g">>

(***************************************************************************)
(* template.ts                                                             *)
(***************************************************************************)
HasKey(props, k) == \E i \in 1..Len(props) : props[i][1] = k
\* obj[k]: the last definition of a key wins (object spread, then literal keys)
Lookup(props, k) ==
    LET hits == {i \in 1..Len(props) : props[i][1] = k}
    IN  props[CHOOSE i \in hits : \A j \in hits : j <= i][2]

\* What the prototype chain of a plain object adds to its own properties
Inherited(k) ==
    CASE k = K_constructor -> Fn(<<"O", "b", "j", "e", "c", "t">>)
      [] k = K_toString -> Fn(K_toString)
      [] OTHER -> Undefined
\* seg in cur: own and inherited properties alike
In(k, props) == HasKey(props, k) \/ k \in {K_constructor, K_toString}
\* cur[seg]: an own property shadows an inherited one
Get(props, k) == IF HasKey(props, k) THEN Lookup(props, k) ELSE Inherited(k)

RECURSIVE WalkPath(_, _)
WalkPath(cur, segs) ==
    IF segs = <<>> THEN cur
    ELSE IF cur.t # "object" \/ ~In(Head(segs), cur.v) THEN Undefined
    ELSE WalkPath(Get(cur.v, Head(segs)), Tail(segs))

getByPath(input, dotted) == WalkPath(input, SplitDots(dotted))

\* /^-?\d+(\.\d+)?$/ : the integer form and the form with a fraction
IsIntLiteral(t) ==
    LET body == IF StartsWith(t, "-") THEN Tail(t) ELSE t
    IN  body # <<>> /\ \A i \in 1..Len(body) : body[i] \in DigitChars

IsDecimalLiteral(t) ==
    LET body == IF StartsWith(t, "-") THEN Tail(t) ELSE t
        dots == {i \in 1..Len(body) : body[i] = "."}
    IN  /\ Cardinality(dots) = 1
        /\ LET d == CHOOSE i \in dots : TRUE
           IN  /\ d > 1 /\ d < Len(body)
               /\ \A i \in 1..Len(body) : i # d => body[i] \in DigitChars

\* Number(t) for a literal the pattern accepts: trailing zeros of the fraction
\* and leading zeros of the integer part do not change the value.
RECURSIVE StripZeros(_)
StripZeros(s) == IF s # <<>> /\ s[Len(s)] = "0" THEN StripZeros(SubSeq(s, 1, Len(s) - 1)) ELSE s

ToNumber(t) ==
    LET neg == StartsWith(t, "-")
        body == IF neg THEN Tail(t) ELSE t
        dots == {i \in 1..Len(body) : body[i] = "."}
        d == IF dots = {} THEN Len(body) + 1 ELSE CHOOSE i \in dots : TRUE
        ip == StrToNat(SubSeq(body, 1, d - 1))
        fr == StripZeros(SubSeq(body, d + 1, Len(body)))
    IN  NumV(neg, ip, fr)

\* A token classifier without the numeric literals
parseCondToken_NoNumbers(token, data) ==
    LET t == Trim(token)
    IN  IF (StartsWith(t, "\"") /\ EndsWith(t, "\"")) \/ (StartsWith(t, "'") /\ EndsWith(t, "'"))
        THEN Str(SubSeq(t, 2, Len(t) - 1))
        ELSE IF t = <<"t", "r", "u", "e">> THEN Bool(TRUE)
        ELSE IF t = <<"f", "a", "l", "s", "e">> THEN Bool(FALSE)
        ELSE IF t = <<"n", "u", "l", "l">> THEN Null
        ELSE getByPath(data, t)

parseCondToken(token, data) ==
    LET t == Trim(token)
    IN  IF (StartsWith(t, "\"") /\ EndsWith(t, "\"")) \/ (StartsWith(t, "'") /\ EndsWith(t, "'"))
        THEN Str(SubSeq(t, 2, Len(t) - 1))
        ELSE IF t = <<"t", "r", "u", "e">> THEN Bool(TRUE)
        ELSE IF t = <<"f", "a", "l", "s", "e">> THEN Bool(FALSE)
        ELSE IF t = <<"n", "u", "l", "l">> THEN Null
        ELSE IF IsIntLiteral(t) \/ IsDecimalLiteral(t) THEN ToNumber(t)
        ELSE getByPath(data, t)

\* JSON.stringify of a string without characters that need escaping
Quote(s) == <<"\"">> \o s \o <<"\"">>

RECURSIVE JsonStringify(_)
RECURSIVE JsonProps(_, _)
JsonStringify(a) ==
    CASE a.t = "null" -> <<"n", "u", "l", "l">>
      [] a.t = "nan" -> <<"n", "u", "l", "l">>
      [] a.t = "boolean" -> IF a.v THEN <<"t", "r", "u", "e">> ELSE <<"f", "a", "l", "s", "e">>
      [] a.t = "number" -> NumToStr(a.v)
      [] a.t = "string" -> Quote(a.v)
      [] OTHER -> <<"{">> \o JsonProps(a.v, TRUE) \o <<"}">>
\* properties whose value is undefined are left out
JsonProps(props, first) ==
    IF props = <<>> THEN <<>>
    ELSE IF Head(props)[2].t = "undefined" THEN JsonProps(Tail(props), first)
    ELSE (IF first THEN <<>> ELSE <<",">>)
         \o Quote(Head(props)[1]) \o <<":">> \o JsonStringify(Head(props)[2])
         \o JsonProps(Tail(props), FALSE)

\* String(f) of a built-in function f
NativeSource(name) ==
    <<"f", "u", "n", "c", "t", "i", "o", "n", " ">> \o name
    \o <<"(", ")", " ", "{", " ", "[", "n", "a", "t", "i", "v", "e", " ",
         "c", "o", "d", "e", "]", " ", "}">>

\* String(v) / JSON.stringify(v) as renderTemplate's replacer applies them
ValueToText(a) ==
    CASE a.t \in {"undefined", "null"} -> <<>>
      [] a.t = "object" -> JsonStringify(a)
      [] a.t = "string" -> a.v
      [] a.t = "number" -> NumToStr(a.v)
      [] a.t = "boolean" -> IF a.v THEN <<"t", "r", "u", "e">> ELSE <<"f", "a", "l", "s", "e">>
      [] a.t = "function" -> NativeSource(a.v)
      [] OTHER -> <<"N", "a", "N">>

RECURSIVE SkipSpaces(_, _)
SkipSpaces(s, p) == IF p <= Len(s) /\ s[p] \in SpaceChars THEN SkipSpaces(s, p + 1) ELSE p

RECURSIVE SkipKey(_, _)
SkipKey(s, p) == IF p <= Len(s) /\ s[p] \in (WordChars \cup {"."}) THEN SkipKey(s, p + 1) ELSE p

\* One match of /{{\s*([\w.]+)\s*}}/ starting at position p: <<key, position
\* after the match>>, or <<>> when the pattern does not match there.
PlaceholderAt(s, p) ==
    IF ~(p + 1 <= Len(s) /\ s[p] = "{" /\ s[p + 1] = "{") THEN <<>>
    ELSE LET k1 == SkipSpaces(s, p + 2)
             k2 == SkipKey(s, k1)
             e == SkipSpaces(s, k2)
         IN  IF k2 > k1 /\ e + 1 <= Len(s) /\ s[e] = "}" /\ s[e + 1] = "}"
             THEN <<SubSeq(s, k1, k2 - 1), e + 2>>
             ELSE <<>>

RECURSIVE RenderFrom(_, _, _)
RenderFrom(s, p, data) ==
    IF p > Len(s) THEN <<>>
    ELSE LET m == PlaceholderAt(s, p)
         IN  IF m = <<>> THEN <<s[p]>> \o RenderFrom(s, p + 1, data)
             ELSE ValueToText(getByPath(data, m[1])) \o RenderFrom(s, m[2], data)

renderTemplate(s, data) == RenderFrom(s, 1, data)

\* A condition evaluator that looks for != before ==
evalCond_NeFirst(expr, data) ==
    LET s == Trim(renderTemplate(expr, data))
        eq == IndexOf2(s, "=", "=")
        ne == IndexOf2(s, "!", "=")
    IN  IF ne > 0
        THEN ~StrictEq(parseCondToken(SubSeq(s, 1, ne - 1), data),
                       parseCondToken(SubSeq(s, ne + 2, Len(s)), data))
        ELSE IF eq > 0
        THEN StrictEq(parseCondToken(SubSeq(s, 1, eq - 1), data),
                      parseCondToken(SubSeq(s, eq + 2, Len(s)), data))
        ELSE Truthy(parseCondToken(s, data))

evalCond(expr, data) ==
    LET s == Trim(renderTemplate(expr, data))
        eq == IndexOf2(s, "=", "=")
        ne == IndexOf2(s, "!", "=")
    IN  IF eq > 0
        THEN StrictEq(parseCondToken(SubSeq(s, 1, eq - 1), data),
                      parseCondToken(SubSeq(s, eq + 2, Len(s)), data))
        ELSE IF ne > 0
        THEN ~StrictEq(parseCondToken(SubSeq(s, 1, ne - 1), data),
                       parseCondToken(SubSeq(s, ne + 2, Len(s)), data))
        ELSE Truthy(parseCondToken(s, data))


templateData(c) ==
    Obj([i \in 1..Len(c.vars) |-> <<c.vars[i][1], Str(c.vars[i][2])>>]
        \o << <<K_slug, Str(c.projectName)>>,
              <<K_project, Str(c.projectName)>>,
              <<K_idea, Str(c.idea)>>,
              <<K_project_dir, Str(c.projectDir)>>,
              <<K_round, Num(c.round)>>,
              <<K_last_exit_code, c.lastExitCode>>,
              <<K_verify, Obj(<< <<K_passed, Bool(c.verify.passed)>>,
                                 <<K_command, Str(c.verify.command)>>,
                                 <<K_code, c.verify.code>>,
                                 <<K_skipped, Bool(c.verify.skipped)>>,
                                 <<K_reason, c.verify.reason>> >>)>> >>)

(***************************************************************************)
(* types.ts: steps, results                                                *)
(***************************************************************************)
\* A Step with every optional field absent
BaseStep(id, type) ==
    [id |-> id, type |-> type, if |-> Undefined, retries |-> Undefined,
     continue_on_error |-> FALSE, timeout_sec |-> Undefined, record |-> Undefined,
     command |-> Undefined, prompt |-> Undefined, prompt_file |-> Undefined,
     max_rounds |-> Undefined, until |-> Undefined, steps |-> <<>>]

StepResult(success, exitCode, detail) ==
    [success |-> success, exitCode |-> exitCode, detail |-> detail]

\* A detail text is kept as the sequence of its pieces
Text(pieces) == [t |-> "string", v |-> pieces]

CommandResult(code, signal, timedOut) ==
    [code |-> code, signal |-> signal, timedOut |-> timedOut]

VerifyOutcome(passed, command, code, skipped, reason) ==
    [passed |-> passed, command |-> command, code |-> code, skipped |-> skipped,
     reason |-> reason]

\* Number(x) for the values a workflow file can give a numeric field
JsNumber(x) ==
    CASE x.t = "number" -> x
      [] x.t = "boolean" -> Num(IF x.v THEN 1 ELSE 0)
      [] x.t = "null" -> Num(0)
      [] x.t = "string" ->
            (LET t == Trim(x.v)
             IN  IF t = <<>> THEN Num(0)
                 ELSE IF IsIntLiteral(t) \/ IsDecimalLiteral(t) THEN ToNumber(t)
                 ELSE NaN)
      [] OTHER -> NaN

\* x ?? d
Coalesce(x, d) == IF x.t \in {"undefined", "null"} THEN d ELSE x

\* Math.max(0, x)
MaxZero(x) == IF x.t = "nan" THEN NaN ELSE IF x.v[1] THEN Num(0) ELSE x

\* x > 0 and a <= x for numbers (false for NaN)
IsPositive(x) == x.t = "number" /\ ~x.v[1] /\ (x.v[2] > 0 \/ x.v[3] # <<>>)
\* n <= x + k for an integer n, a non-negative number x and an integer k
\* (false when x is NaN)
LeqPlus(n, x, k) == x.t = "number" /\ n <= x.v[2] + k


(***************************************************************************)
(* State                                                                   *)
(***************************************************************************)
VARIABLES
    wf,        \* the loaded workflow's steps (immutable during the run)
    ctx,       \* the WorkflowContext
    run,       \* cmdInbox / runWorkflow: position, loop index, last step result
    stack,     \* the execStep activations, innermost last
    exc,       \* the exception being thrown through the main flow: <<>> or <<message>>
    journal,   \* run.jsonl: the records written so far, in file order
    pending,   \* appendJsonl calls issued and not yet completed, in issue order
    clock,     \* the wall clock read by nowIso() and Date.now()
    cmds,      \* every runCommandWithLogging invocation's closure and child process
    env,       \* what the environment may still do: output chunks, 'error' events, I/O failures
    hist       \* observation: execStep calls, attempts, rounds, returns, resolved commands

vars == <<wf, ctx, run, stack, exc, journal, pending, clock, cmds, env, hist>>

Top == stack[Len(stack)]
SetTop(f) == [stack EXCEPT ![Len(stack)] = f]

RECURSIVE StepIn(_, _)
StepIn(steps, path) ==
    IF Len(path) = 1 THEN steps[path[1]] ELSE StepIn(steps[path[1]].steps, Tail(path))
\* The step an activation executes
StepAt(path) == StepIn(wf, path)

NoResult == CommandResult(Undefined, Undefined, FALSE)

\* A fresh execStep activation
Frame(path) ==
    [path |-> path, pc |-> "enter", try |-> FALSE, after |-> "", source |-> "",
     rounds |-> Num(0), i |-> 0, sub |-> 0, untilMet |-> FALSE,
     retries |-> Num(0), attempt |-> 0,
     last |-> StepResult(FALSE, Null, Undefined),
     cres |-> NoResult, verifyCommand |-> <<>>, verifyResultCode |-> Null,
     skippedReason |-> Undefined, commandId |-> <<>>, timeoutMs |-> Undefined,
     ctx0 |-> ctx, j0 |-> Len(journal)]

\* appendJsonl(record) is issued now: the record's ts is read now, the write
\* completes later (Land). k says who awaits it.
Await(h, n, code, signal) == [h |-> h, n |-> n, code |-> code, signal |-> signal]
ByMain == Await("main", 0, Null, Null)
ByNobody == Await("void", 0, Null, Null)
Emit(source, kind, payload, k) ==
    /\ pending' = Append(pending,
                         [rec |-> [ts |-> clock, source |-> source, kind |-> kind,
                                   payload |-> payload],
                          k |-> k])
    /\ clock' = clock + 1
NoEmit == UNCHANGED <<pending, clock>>

Observe(e, path, n, res) ==
    hist' = Append(hist, [e |-> e, path |-> path, n |-> n, res |-> res,
                          ctx0 |-> ctx, ctx |-> ctx, j0 |-> Len(journal), j |-> Len(journal)])

MainAwaitsAppend == \E i \in 1..Len(pending) : pending[i].k.h = "main"
MainAwaitsCommand == stack # <<>> /\ Top.pc = "cmd_wait"
\* The main flow has code to run: promise continuations (microtasks) run before
\* the event loop delivers any further I/O completion, timer or child event.
MainRuns ==
    /\ run.pc \in {"loop", "step", "check", "result", "exit"}
    /\ ~MainAwaitsAppend
    /\ ~MainAwaitsCommand
\* The event loop is free to deliver an event
LoopIdle == run.pc # "crashed" /\ ~MainRuns

InStep(pc) == MainRuns /\ exc = <<>> /\ run.pc = "step" /\ stack # <<>> /\ Top.pc = pc

(***************************************************************************)
(* workflow.ts: runWorkflow, and inbox.ts: the end of cmdInbox               *)
(***************************************************************************)
\* for (const step of workflow.steps) { const result = await execStep(step, ctx);
RunWorkflowNext ==
    /\ MainRuns /\ exc = <<>> /\ run.pc = "loop"
    /\ IF run.idx <= Len(wf)
       THEN /\ stack' = <<Frame(<<run.idx>>)>>
            /\ run' = [run EXCEPT !.pc = "step"]
       ELSE /\ run' = [run EXCEPT !.pc = "result", !.success = TRUE]
            /\ UNCHANGED stack
    /\ UNCHANGED <<wf, ctx, exc, journal, pending, clock, cmds, env, hist>>

\* A runner that stops at any failed result, tolerated or not
StopsRun_IgnoresTolerance(result, step) == ~result.success

\* !result.success && !step.continue_on_error
StopsRun(result, step) == ~result.success /\ ~step.continue_on_error

\* if (!result.success && !step.continue_on_error) return false;
RunWorkflowCheck ==
    /\ MainRuns /\ exc = <<>> /\ run.pc = "check"
    /\ IF StopsRun(run.res, wf[run.idx])
       THEN run' = [run EXCEPT !.pc = "result", !.success = FALSE]
       ELSE run' = [run EXCEPT !.pc = "loop", !.idx = @ + 1]
    /\ UNCHANGED <<wf, ctx, stack, exc, journal, pending, clock, cmds, env, hist>>

\* cmdInbox after runWorkflow returned: the result record
CmdInboxResult ==
    /\ MainRuns /\ exc = <<>> /\ run.pc = "result"
    /\ Emit("pm", "result",
            [status |-> IF run.success THEN "success" ELSE "failed",
             codexExitCode |-> ctx.lastExitCode], ByMain)
    /\ run' = [run EXCEPT !.pc = "exit"]
    /\ UNCHANGED <<wf, ctx, stack, exc, journal, cmds, env, hist>>

CmdInboxReturn ==
    /\ MainRuns /\ exc = <<>> /\ run.pc = "exit"
    /\ run' = [run EXCEPT !.pc = "done"]
    /\ UNCHANGED <<wf, ctx, stack, exc, journal, pending, clock, cmds, env, hist>>

\* execStep returns res to its caller: runWorkflow, or the round of a repeat step
Return(res) ==
    /\ hist' = Append(hist, [e |-> "return", path |-> Top.path, n |-> Top.attempt, res |-> res,
                             ctx0 |-> Top.ctx0, ctx |-> ctx, j0 |-> Top.j0, j |-> Len(journal)])
    /\ IF Len(stack) = 1
       THEN /\ stack' = <<>>
            /\ run' = [run EXCEPT !.pc = "check", !.res = res]
       ELSE /\ stack' = [SubSeq(stack, 1, Len(stack) - 1) EXCEPT
                            ![Len(stack) - 1] = [@ EXCEPT !.last = res, !.pc = "sub_check"]]
            /\ UNCHANGED run


(***************************************************************************)
(* workflow.ts: execStep                                                   *)
(***************************************************************************)
\* const record = step.record !== false;
Records(step) == step.record # Bool(FALSE)

\* A guard read the wrong way round: the step is skipped when its condition holds
GuardSkips_Inverted(step, c) == Truthy(step.if) /\ evalCond(step.if.v, templateData(c))

\* step.if && !evalCond(step.if, templateData(ctx))
GuardSkips(step, c) == Truthy(step.if) /\ ~evalCond(step.if.v, templateData(c))

\* const rounds = Number(step.max_rounds ?? 1);
RoundBound(step) == JsNumber(Coalesce(step.max_rounds, Num(1)))

\* const retries = Math.max(0, Number(step.retries ?? 0));
RetryCount(step) == MaxZero(JsNumber(Coalesce(step.retries, Num(0))))

\* A round loop that stops one round early
RoundInBound_Strict(i, rounds) == LeqPlus(i, rounds, -1)

\* i <= rounds
RoundInBound(i, rounds) == LeqPlus(i, rounds, 0)

\* A retry loop that forgets the initial attempt
AttemptInBound_OffByOne(attempt, retries) == LeqPlus(attempt, retries, 0)

\* A retry loop that makes one attempt more
AttemptInBound_OneMore(attempt, retries) == LeqPlus(attempt, retries, 2)

\* attempt <= retries + 1
AttemptInBound(attempt, retries) == LeqPlus(attempt, retries, 1)

\* step.until && evalCond(step.until, templateData(ctx))
UntilHolds(step, c) == Truthy(step.until) /\ evalCond(step.until.v, templateData(c))

\* !last.success && !sub.continue_on_error
EndsRound(last, sub) == ~last.success /\ ~sub.continue_on_error

\* The guard, then the set-up of the repeat loop or of the retry loop
ExecStepEnter ==
    /\ InStep("enter")
    /\ LET step == StepAt(Top.path)
           f == [Top EXCEPT !.ctx0 = ctx, !.j0 = Len(journal)]
       IN  /\ Observe("call", Top.path, 0, f.last)
           /\ IF GuardSkips(step, ctx)
              THEN /\ stack' = SetTop([f EXCEPT !.pc = "skip_ret",
                                         !.last = StepResult(TRUE, ctx.lastExitCode,
                                                             Text(<<"skipped by if">>))])
                   /\ IF Records(step)
                      THEN Emit("pm", "workflow_step_skip", [stepId |-> step.id], ByMain)
                      ELSE NoEmit
                   /\ UNCHANGED exc
              ELSE IF step.type = "repeat"
              THEN /\ NoEmit
                   /\ IF ~IsPositive(RoundBound(step))
                      THEN /\ exc' = <<"repeat step requires max_rounds > 0">>
                           /\ stack' = SetTop(f)
                      ELSE /\ stack' = SetTop([f EXCEPT !.pc = "round_head",
                                                 !.rounds = RoundBound(step),
                                                 !.last = StepResult(TRUE, ctx.lastExitCode, Undefined),
                                                 !.untilMet = FALSE, !.i = 1])
                           /\ UNCHANGED exc
              ELSE /\ NoEmit
                   /\ stack' = SetTop([f EXCEPT !.pc = "attempt_head",
                                         !.retries = RetryCount(step),
                                         !.last = StepResult(FALSE, Null, Undefined),
                                         !.attempt = 1])
                   /\ UNCHANGED exc
    /\ UNCHANGED <<wf, ctx, run, journal, cmds, env>>

\* return skipped;
ExecStepSkipped ==
    /\ InStep("skip_ret")
    /\ Return(Top.last)
    /\ UNCHANGED <<wf, ctx, exc, journal, pending, clock, cmds, env>>

\* for (let i = 1; i <= rounds; i += 1) { ctx.round = i; ... workflow_round_start
RepeatRoundStart ==
    /\ InStep("round_head")
    /\ LET step == StepAt(Top.path)
       IN  IF RoundInBound(Top.i, Top.rounds)
           THEN /\ ctx' = [ctx EXCEPT !.round = Top.i]
                /\ stack' = SetTop([Top EXCEPT !.pc = "sub_head", !.sub = 1])
                /\ hist' = Append(hist, [e |-> "round", path |-> Top.path, n |-> Top.i,
                                         res |-> Top.last, ctx0 |-> Top.ctx0, ctx |-> ctx',
                                         j0 |-> Top.j0, j |-> Len(journal)])
                /\ IF Records(step)
                   THEN Emit("pm", "workflow_round_start",
                             [stepId |-> step.id, round |-> Top.i], ByMain)
                   ELSE NoEmit
           ELSE /\ stack' = SetTop([Top EXCEPT !.pc = "repeat_ret"])
                /\ NoEmit
                /\ UNCHANGED <<ctx, hist>>
    /\ UNCHANGED <<wf, run, exc, journal, cmds, env>>

\* for (const sub of step.steps ?? []) { last = await execStep(sub, ctx);
RepeatNextSub ==
    /\ InStep("sub_head")
    /\ LET step == StepAt(Top.path)
       IN  IF Top.sub <= Len(step.steps)
           THEN stack' = Append(SetTop([Top EXCEPT !.pc = "sub_wait"]),
                                Frame(Top.path \o <<Top.sub>>))
           ELSE stack' = SetTop([Top EXCEPT !.pc = "round_end"])
    /\ UNCHANGED <<wf, ctx, run, exc, journal, pending, clock, cmds, env, hist>>

\* A nested failure that leaves the round loop as well
RepeatSubCheck_EndsRepeat ==
    /\ InStep("sub_check")
    /\ LET sub == StepAt(Top.path \o <<Top.sub>>)
       IN  IF EndsRound(Top.last, sub)
           THEN stack' = SetTop([Top EXCEPT !.pc = "repeat_ret"])
           ELSE stack' = SetTop([Top EXCEPT !.pc = "sub_head", !.sub = @ + 1])
    /\ UNCHANGED <<wf, ctx, run, exc, journal, pending, clock, cmds, env, hist>>

\* if (!last.success && !sub.continue_on_error) break;
RepeatSubCheck ==
    /\ InStep("sub_check")
    /\ LET sub == StepAt(Top.path \o <<Top.sub>>)
       IN  IF EndsRound(Top.last, sub)
           THEN stack' = SetTop([Top EXCEPT !.pc = "round_end"])
           ELSE stack' = SetTop([Top EXCEPT !.pc = "sub_head", !.sub = @ + 1])
    /\ UNCHANGED <<wf, ctx, run, exc, journal, pending, clock, cmds, env, hist>>

\* workflow_round_end
RepeatRoundEnd ==
    /\ InStep("round_end")
    /\ LET step == StepAt(Top.path)
       IN  IF Records(step)
           THEN Emit("pm", "workflow_round_end",
                     [stepId |-> step.id, round |-> Top.i, success |-> Top.last.success,
                      exitCode |-> Top.last.exitCode], ByMain)
           ELSE NoEmit
    /\ stack' = SetTop([Top EXCEPT !.pc = "until"])
    /\ UNCHANGED <<wf, ctx, run, exc, journal, cmds, env, hist>>

\* if (step.until && evalCond(...)) { untilMet = true; break; }  and  i += 1
RepeatUntil ==
    /\ InStep("until")
    /\ LET step == StepAt(Top.path)
           met == UntilHolds(step, ctx)
       IN  /\ hist' = Append(hist, [e |-> "until", path |-> Top.path, n |-> Top.i,
                                    res |-> StepResult(met, Null, Undefined),
                                    ctx0 |-> Top.ctx0, ctx |-> ctx, j0 |-> Top.j0,
                                    j |-> Len(journal)])
           /\ IF met
              THEN stack' = SetTop([Top EXCEPT !.pc = "repeat_ret", !.untilMet = TRUE])
              ELSE stack' = SetTop([Top EXCEPT !.pc = "round_head", !.i = @ + 1])
    /\ UNCHANGED <<wf, ctx, run, exc, journal, pending, clock, cmds, env>>

\* A repeat result that reports the last child's success whatever until says
RepeatResult_LastOnly(step, untilMet, last, c) ==
    StepResult(last.success, c.lastExitCode, Undefined)

\* A repeat result that reports untilMet even when no until is declared
RepeatResult_UntilOnly(step, untilMet, last, c) ==
    StepResult(untilMet, c.lastExitCode, Undefined)

\* A repeat result to which the continue_on_error override is applied
RepeatResult_Tolerated(step, untilMet, last, c) ==
    LET ok == IF Truthy(step.until) THEN untilMet ELSE last.success
    IN  IF ~ok /\ step.continue_on_error
        THEN StepResult(TRUE, c.lastExitCode, Text(<<"continue_on_error=true; ", "failed">>))
        ELSE StepResult(ok, c.lastExitCode,
                        IF Truthy(step.until) THEN Text(<<"until=", step.until.v>>)
                        ELSE Undefined)

\* The repeat step's result
RepeatResult(step, untilMet, last, c) ==
    StepResult(IF Truthy(step.until) THEN untilMet ELSE last.success,
               c.lastExitCode,
               IF Truthy(step.until) THEN Text(<<"until=", step.until.v>>) ELSE Undefined)

RepeatReturn ==
    /\ InStep("repeat_ret")
    /\ Return(RepeatResult(StepAt(Top.path), Top.untilMet, Top.last, ctx))
    /\ UNCHANGED <<wf, ctx, exc, journal, pending, clock, cmds, env>>

\* for (let attempt = 1; attempt <= retries + 1; attempt += 1) { workflow_step_start
AttemptStart ==
    /\ InStep("attempt_head")
    /\ LET step == StepAt(Top.path)
       IN  IF AttemptInBound(Top.attempt, Top.retries)
           THEN /\ stack' = SetTop([Top EXCEPT !.pc = "single"])
                /\ IF Records(step)
                   THEN Emit("pm", "workflow_step_start",
                             [stepId |-> step.id, type |-> step.type,
                              attempt |-> Top.attempt], ByMain)
                   ELSE NoEmit
           ELSE /\ stack' = SetTop([Top EXCEPT !.pc = "retry_ret"])
                /\ NoEmit
    /\ UNCHANGED <<wf, ctx, run, exc, journal, cmds, env, hist>>

\* An attempt that ends without its workflow_step_end record
AttemptEnd_Silent ==
    /\ InStep("attempt_end")
    /\ NoEmit
    /\ stack' = SetTop([Top EXCEPT !.pc = "attempt_check", !.try = FALSE])
    /\ Observe("result", Top.path, Top.attempt, Top.last)
    /\ UNCHANGED <<wf, ctx, run, exc, journal, cmds, env>>

\* workflow_step_end
AttemptEnd ==
    /\ InStep("attempt_end")
    /\ LET step == StepAt(Top.path)
       IN  IF Records(step)
           THEN Emit("pm", "workflow_step_end",
                     [stepId |-> step.id, type |-> step.type, attempt |-> Top.attempt,
                      success |-> Top.last.success, exitCode |-> Top.last.exitCode,
                      detail |-> Coalesce(Top.last.detail, Null)], ByMain)
           ELSE NoEmit
    /\ stack' = SetTop([Top EXCEPT !.pc = "attempt_check", !.try = FALSE])
    /\ Observe("result", Top.path, Top.attempt, Top.last)
    /\ UNCHANGED <<wf, ctx, run, exc, journal, cmds, env>>

\* A retry loop that goes on after a successful attempt
StopsRetry_Never(last) == FALSE

\* if (last.success) break;
StopsRetry(last) == last.success

\* if (last.success) break;  and  attempt += 1
AttemptCheck ==
    /\ InStep("attempt_check")
    /\ IF StopsRetry(Top.last)
       THEN stack' = SetTop([Top EXCEPT !.pc = "retry_ret"])
       ELSE stack' = SetTop([Top EXCEPT !.pc = "attempt_head", !.attempt = @ + 1])
    /\ UNCHANGED <<wf, ctx, run, exc, journal, pending, clock, cmds, env, hist>>

\* An override that reports success and forgets the exit code of the failure
RetryResult_ZeroExit(step, last) ==
    IF ~last.success /\ step.continue_on_error
    THEN StepResult(TRUE, Num(0),
                    Text(<<"continue_on_error=true; ">>
                         \o Coalesce(last.detail, Text(<<"failed">>)).v))
    ELSE last

\* The continue_on_error override of a step whose attempts are exhausted
RetryResult(step, last) ==
    IF ~last.success /\ step.continue_on_error
    THEN StepResult(TRUE, last.exitCode,
                    Text(<<"continue_on_error=true; ">>
                         \o Coalesce(last.detail, Text(<<"failed">>)).v))
    ELSE last

RetryReturn ==
    /\ InStep("retry_ret")
    /\ Return(RetryResult(StepAt(Top.path), Top.last))
    /\ UNCHANGED <<wf, ctx, exc, journal, pending, clock, cmds, env>>

\* A catch that writes the error record and forgets to fail the attempt
Catch_KeepsResult ==
    /\ MainRuns /\ exc # <<>> /\ stack # <<>> /\ Top.try
    /\ LET step == StepAt(Top.path)
       IN  Emit("pm", "workflow_step_error",
                [stepId |-> step.id, attempt |-> Top.attempt, message |-> exc[1]], ByMain)
    /\ stack' = SetTop([Top EXCEPT !.pc = "attempt_end", !.try = FALSE])
    /\ exc' = <<>>
    /\ UNCHANGED <<wf, ctx, run, journal, cmds, env, hist>>

\* catch (error) { last = { success: false, exitCode: 1, detail: message }; workflow_step_error
\* An exception thrown inside execSingleStep is caught by the attempt's try.
Catch ==
    /\ MainRuns /\ exc # <<>> /\ stack # <<>> /\ Top.try
    /\ LET step == StepAt(Top.path)
       IN  Emit("pm", "workflow_step_error",
                [stepId |-> step.id, attempt |-> Top.attempt, message |-> exc[1]], ByMain)
    /\ stack' = SetTop([Top EXCEPT !.pc = "attempt_end", !.try = FALSE,
                          !.last = StepResult(FALSE, Num(1), Text(<<exc[1]>>))])
    /\ exc' = <<>>
    /\ UNCHANGED <<wf, ctx, run, journal, cmds, env, hist>>

\* An exception thrown anywhere else leaves every execStep activation, runWorkflow
\* and cmdInbox: no try encloses them before main()'s.
Abort ==
    /\ MainRuns /\ exc # <<>>
    /\ IF stack = <<>> THEN TRUE ELSE ~Top.try
    /\ stack' = <<>>
    /\ run' = [run EXCEPT !.pc = "aborted"]
    /\ hist' = Append(hist, [e |-> "abort", path |-> <<>>, n |-> 0,
                             res |-> StepResult(FALSE, Null, Text(<<exc[1]>>)),
                             ctx0 |-> ctx, ctx |-> ctx, j0 |-> Len(journal), j |-> Len(journal)])
    /\ UNCHANGED <<wf, ctx, exc, journal, pending, clock, cmds, env>>


(***************************************************************************)
(* workflow.ts: execSingleStep, and verify.ts: runVerify                     *)
(***************************************************************************)
\* x * 1000: the decimal point moves three digits to the right
Times1000(x) ==
    IF x.t # "number" THEN NaN
    ELSE LET fr == x.v[3]
             head == SubSeq(fr \o <<"0", "0", "0">>, 1, 3)
             rest == IF Len(fr) > 3 THEN SubSeq(fr, 4, Len(fr)) ELSE <<>>
         IN  NumV(x.v[1], x.v[2] * 1000 + StrToNat(head), rest)

\* timeoutMs: step.timeout_sec ? step.timeout_sec * 1000 : undefined
TimeoutMs(step) ==
    IF Truthy(step.timeout_sec) THEN Times1000(JsNumber(step.timeout_sec)) ELSE Undefined

\* An exit test that takes every falsy code, null included, for success
ExitOk_Falsy(code) == ~Truthy(code)

\* success: result.code === 0
ExitOk(code) == StrictEq(code, Num(0))

\* runCommandWithLogging up to its first await: the command_start record.
\* f is the caller's activation, after is where the caller goes on with the result.
StartCommand(f, source, prefix, timeoutMs, after) ==
    LET commandId == <<prefix, StepAt(f.path).id, clock>>
    IN  /\ Emit(source, "command_start", [commandId |-> commandId], ByMain)
        /\ stack' = SetTop([f EXCEPT !.pc = "cmd_spawn", !.after = after, !.source = source,
                                     !.commandId = commandId, !.timeoutMs = timeoutMs])

\* last = await execSingleStep(step, ctx): the dispatch on the step's type
ExecSingleStep ==
    /\ InStep("single")
    /\ LET step == StepAt(Top.path)
           f == [Top EXCEPT !.try = TRUE]
       IN  /\ Observe("attempt", Top.path, Top.attempt, Top.last)
           /\ CASE step.type = "codex" ->
                   /\ \/ /\ Truthy(step.prompt) \/ Truthy(step.prompt_file)
                         /\ Emit("pm", "file_write", [stepId |-> step.id], ByMain)
                         /\ stack' = SetTop([f EXCEPT !.pc = "codex_run"])
                         /\ UNCHANGED exc
                      \/ /\ ~Truthy(step.prompt) /\ Truthy(step.prompt_file)
                         /\ exc' = <<"ENOENT: prompt file">>
                         /\ stack' = SetTop(f)
                         /\ NoEmit
                      \/ /\ ~Truthy(step.prompt) /\ ~Truthy(step.prompt_file)
                         /\ exc' = <<"codex step requires prompt or prompt_file">>
                         /\ stack' = SetTop(f)
                         /\ NoEmit
                   /\ UNCHANGED env
             [] step.type = "shell" ->
                   /\ IF ~Truthy(step.command)
                      THEN /\ exc' = <<"shell step requires command">>
                           /\ stack' = SetTop(f)
                           /\ NoEmit
                      ELSE /\ StartCommand(f, "shell", "shell", TimeoutMs(step), "exec_done")
                           /\ UNCHANGED exc
                   /\ UNCHANGED env
             [] step.type = "verify" ->
                   /\ Emit("verify", "verify_start", [stepId |-> step.id], ByMain)
                   /\ stack' = SetTop([f EXCEPT !.pc = "rv_detect"])
                   /\ UNCHANGED <<exc, env>>
             [] step.type = "report" ->
                   \/ /\ Emit("pm", "report", [stepId |-> step.id], ByMain)
                      /\ stack' = SetTop([f EXCEPT !.pc = "report_done"])
                      /\ UNCHANGED <<exc, env>>
                   \/ /\ env.faults > 0
                      /\ env' = [env EXCEPT !.faults = @ - 1]
                      /\ exc' = <<"EIO: generateReport">>
                      /\ stack' = SetTop(f)
                      /\ NoEmit
             [] OTHER ->
                   /\ stack' = SetTop([f EXCEPT !.pc = "attempt_end",
                                         !.last = StepResult(FALSE, Num(1),
                                                     Text(<<"unsupported step type: ", step.type>>))])
                   /\ NoEmit
                   /\ UNCHANGED <<exc, env>>
    /\ UNCHANGED <<wf, ctx, run, journal, cmds>>

\* codex: after prompt.txt and its file_write record, run the agent
CodexRun ==
    /\ InStep("codex_run")
    /\ StartCommand(Top, "codex_exec", "codex", TimeoutMs(StepAt(Top.path)), "exec_done")
    /\ UNCHANGED <<wf, ctx, run, exc, journal, cmds, env, hist>>

\* ctx.lastExitCode = result.code; return { success: result.code === 0, exitCode: result.code };
ExecDone ==
    /\ InStep("exec_done")
    /\ ctx' = [ctx EXCEPT !.lastExitCode = Top.cres.code]
    /\ stack' = SetTop([Top EXCEPT !.pc = "attempt_end",
                          !.last = StepResult(ExitOk(Top.cres.code), Top.cres.code, Undefined)])
    /\ UNCHANGED <<wf, run, exc, journal, pending, clock, cmds, env, hist>>

\* A report step that stores its exit code 0 in the Run Context
ReportDone_SetsExitCode ==
    /\ InStep("report_done")
    /\ ctx' = [ctx EXCEPT !.lastExitCode = Num(0)]
    /\ stack' = SetTop([Top EXCEPT !.pc = "attempt_end",
                          !.last = StepResult(TRUE, Num(0), Undefined)])
    /\ UNCHANGED <<wf, run, exc, journal, pending, clock, cmds, env, hist>>

\* return { success: true, exitCode: 0 };
ReportDone ==
    /\ InStep("report_done")
    /\ stack' = SetTop([Top EXCEPT !.pc = "attempt_end",
                          !.last = StepResult(TRUE, Num(0), Undefined)])
    /\ UNCHANGED <<wf, ctx, run, exc, journal, pending, clock, cmds, env, hist>>

\* runVerify: the choice of the verification method from the project directory
RunVerifyDetect ==
    /\ InStep("rv_detect")
    /\ CASE env.project = "package.json" ->
              StartCommand([Top EXCEPT !.verifyCommand = <<"npm test">>],
                           "verify", "verify-npm-test", Undefined, "rv_npm")
         [] env.project \in {"pyproject.toml", "cli.py", "cli.ps1", "cli.js"} ->
              StartCommand([Top EXCEPT !.verifyCommand = <<env.project>>],
                           "verify", "verify-one", Undefined, "rv_one")
         [] OTHER ->
              /\ Emit("verify", "verify_skip", [reason |-> "no verification method"], ByMain)
              /\ stack' = SetTop([Top EXCEPT !.pc = "rv_end",
                                    !.skippedReason = Text(<<"no verification method">>)])
    /\ UNCHANGED <<wf, ctx, run, exc, journal, cmds, env, hist>>

\* if (result.code !== 0) { verifyCommand = "npm run test"; result = await runCommandWithLogging(...)
RunVerifyNpm ==
    /\ InStep("rv_npm")
    /\ IF ~ExitOk(Top.cres.code)
       THEN StartCommand([Top EXCEPT !.verifyCommand = <<"npm run test">>],
                         "verify", "verify-npm-run-test", Undefined, "rv_one")
       ELSE /\ stack' = SetTop([Top EXCEPT !.pc = "rv_end", !.verifyResultCode = Top.cres.code])
            /\ NoEmit
    /\ UNCHANGED <<wf, ctx, run, exc, journal, cmds, env, hist>>

\* verifyResultCode = result.code;
RunVerifyOne ==
    /\ InStep("rv_one")
    /\ stack' = SetTop([Top EXCEPT !.pc = "rv_end", !.verifyResultCode = Top.cres.code])
    /\ UNCHANGED <<wf, ctx, run, exc, journal, pending, clock, cmds, env, hist>>

\* verify_end
RunVerifyEnd ==
    /\ InStep("rv_end")
    /\ Emit("verify", "verify_end",
            [command |-> Top.verifyCommand, code |-> Top.verifyResultCode], ByMain)
    /\ stack' = SetTop([Top EXCEPT !.pc = "rv_ret"])
    /\ UNCHANGED <<wf, ctx, run, exc, journal, cmds, env, hist>>

\* runVerify's return value
RunVerifyOutcome(verifyResultCode, verifyCommand, skippedReason) ==
    VerifyOutcome(ExitOk(verifyResultCode), verifyCommand, verifyResultCode,
                  verifyResultCode.t = "null", skippedReason)

\* A verify step that succeeds only when the verification passed
VerifySuccess_PassedOnly(outcome) == outcome.passed

\* success: outcome.passed || outcome.skipped
VerifySuccess(outcome) == outcome.passed \/ outcome.skipped

\* ctx.verify = outcome; ctx.lastExitCode = outcome.code; return { success: passed || skipped, ...
VerifyDone ==
    /\ InStep("rv_ret")
    /\ LET outcome == RunVerifyOutcome(Top.verifyResultCode, Top.verifyCommand, Top.skippedReason)
       IN  /\ ctx' = [ctx EXCEPT !.verify = outcome, !.lastExitCode = outcome.code]
           /\ stack' = SetTop([Top EXCEPT !.pc = "attempt_end",
                                 !.last = StepResult(VerifySuccess(outcome),
                                                     outcome.code, outcome.reason)])
    /\ UNCHANGED <<wf, run, exc, journal, pending, clock, cmds, env, hist>>


(***************************************************************************)
(* runner.ts: runCommandWithLogging, and the child process it supervises     *)
(***************************************************************************)
\* Exit codes a process that ends by itself reports
ExitCodes == {Num(0), Num(1)}
\* The code Node reports on 'close' after a failed spawn (a negative errno)
SpawnErrno == Num(-2)

\* timeoutHandle = params.timeoutMs && params.timeoutMs > 0 ? setTimeout(...) : null
TimerArmed(timeoutMs) == Truthy(timeoutMs) /\ IsPositive(timeoutMs)

\* spawn(...), settled = false, timedOut = false, the timer and the four listeners;
\* the caller then waits for the promise.
CmdSpawn ==
    /\ InStep("cmd_spawn")
    /\ cmds' = Append(cmds, [commandId |-> Top.commandId, source |-> Top.source,
                             settled |-> FALSE, timedOut |-> FALSE,
                             timer |-> IF TimerArmed(Top.timeoutMs) THEN "armed" ELSE "none",
                             killed |-> FALSE, errorEv |-> FALSE, closeEv |-> FALSE,
                             nout |-> 0, nerr |-> 0,
                             result |-> NoResult])
    /\ stack' = SetTop([Top EXCEPT !.pc = "cmd_wait"])
    /\ UNCHANGED <<wf, ctx, run, exc, journal, pending, clock, env, hist>>

\* child.stdout.on("data") / child.stderr.on("data"): void appendJsonl(...)
ChildData(n, stream) ==
    /\ LoopIdle
    /\ ~cmds[n].closeEv /\ ~cmds[n].errorEv
    /\ env.chunks > 0
    /\ env' = [env EXCEPT !.chunks = @ - 1]
    /\ LET seq == IF stream = "stdout" THEN cmds[n].nout + 1 ELSE cmds[n].nerr + 1
       IN  /\ Emit(cmds[n].source, stream,
                   [commandId |-> cmds[n].commandId, text |-> seq], ByNobody)
           /\ cmds' = [cmds EXCEPT ![n].nout = IF stream = "stdout" THEN seq ELSE @,
                                   ![n].nerr = IF stream = "stderr" THEN seq ELSE @]
    /\ UNCHANGED <<wf, ctx, run, stack, exc, journal, hist>>

\* setTimeout(async () => { timedOut = true; await appendJsonl(command_timeout) ...
TimerFire(n) ==
    /\ LoopIdle
    /\ cmds[n].timer = "armed"
    /\ cmds' = [cmds EXCEPT ![n].timer = "fired", ![n].timedOut = TRUE]
    /\ Emit(cmds[n].source, "command_timeout", [commandId |-> cmds[n].commandId],
            Await("timer", n, Null, Null))
    /\ UNCHANGED <<wf, ctx, run, stack, exc, journal, env, hist>>

\* An 'error' listener that resolves the promise before its record is written
ChildError_FinishFirst(n) ==
    /\ LoopIdle
    /\ ~cmds[n].errorEv /\ ~cmds[n].closeEv
    /\ cmds[n].nout = 0 /\ cmds[n].nerr = 0
    /\ env.errors > 0
    /\ env' = [env EXCEPT !.errors = @ - 1]
    /\ Emit(cmds[n].source, "command_error",
            [commandId |-> cmds[n].commandId, message |-> "spawn ENOENT"], ByNobody)
    /\ cmds' = [cmds EXCEPT ![n].errorEv = TRUE, ![n].settled = TRUE,
                            ![n].result = CommandResult(Num(-1), Null, cmds[n].timedOut),
                            ![n].timer = IF @ = "armed" THEN "cleared" ELSE @]
    /\ stack' = SetTop([Top EXCEPT !.pc = Top.after,
                          !.cres = CommandResult(Num(-1), Null, cmds[n].timedOut)])
    /\ UNCHANGED <<wf, ctx, run, exc, journal, hist>>

\* child.on("error", async (error) => { await appendJsonl(command_error) ...
\* The 'error' event of a child that could not be spawned: it has produced no
\* output and produces none.
ChildError(n) ==
    /\ LoopIdle
    /\ ~cmds[n].errorEv /\ ~cmds[n].closeEv
    /\ cmds[n].nout = 0 /\ cmds[n].nerr = 0
    /\ env.errors > 0
    /\ env' = [env EXCEPT !.errors = @ - 1]
    /\ cmds' = [cmds EXCEPT ![n].errorEv = TRUE]
    /\ Emit(cmds[n].source, "command_error",
            [commandId |-> cmds[n].commandId, message |-> "spawn ENOENT"],
            Await("error", n, Null, Null))
    /\ UNCHANGED <<wf, ctx, run, stack, exc, journal, hist>>

\* What 'close' can report: the process ended by itself or was ended by the
\* kill signal; a child that could not be spawned reports the spawn's errno
CloseReports(c) ==
    IF c.errorEv
    THEN {<<SpawnErrno, Null>>}
    ELSE {<<code, Null>> : code \in ExitCodes}
         \cup (IF c.killed THEN {<<Null, Str(<<"SIGTERM">>)>>} ELSE {})

\* child.on("close", async (code, signal) => { await appendJsonl(command_end {.., timedOut}) ...
ChildClose(n, code, signal) ==
    /\ LoopIdle
    /\ ~cmds[n].closeEv
    /\ <<code, signal>> \in CloseReports(cmds[n])
    /\ cmds' = [cmds EXCEPT ![n].closeEv = TRUE]
    /\ Emit(cmds[n].source, "command_end",
            [commandId |-> cmds[n].commandId, code |-> code, signal |-> signal,
             timedOut |-> cmds[n].timedOut],
            Await("close", n, code, signal))
    /\ UNCHANGED <<wf, ctx, run, stack, exc, journal, env, hist>>

\* child.on("close", async (code, signal) => ...: the process was ended by a
\* signal sent from outside the program (the user, the system), so 'close'
\* reports a null code and the signal
ChildSignalled(n) ==
    /\ LoopIdle
    /\ ~cmds[n].closeEv /\ ~cmds[n].errorEv
    /\ env.signals > 0
    /\ env' = [env EXCEPT !.signals = @ - 1]
    /\ cmds' = [cmds EXCEPT ![n].closeEv = TRUE]
    /\ Emit(cmds[n].source, "command_end",
            [commandId |-> cmds[n].commandId, code |-> Null, signal |-> Str(<<"SIGKILL">>),
             timedOut |-> cmds[n].timedOut],
            Await("close", n, Null, Str(<<"SIGKILL">>)))
    /\ UNCHANGED <<wf, ctx, run, stack, exc, journal, hist>>

\* A finish whose settled guard is inverted: it never settles the promise
Finish_GuardInverted(n, result) ==
    IF ~cmds[n].settled
    THEN UNCHANGED <<cmds, stack, hist>>
    ELSE /\ cmds' = [cmds EXCEPT ![n].settled = TRUE, ![n].result = result,
                                 ![n].timer = IF @ = "armed" THEN "cleared" ELSE @]
         /\ stack' = SetTop([Top EXCEPT !.pc = Top.after, !.cres = result])
         /\ UNCHANGED hist

\* finish(result): the first call settles the promise, clears the timer and
\* resumes the caller with the result; later calls do nothing.
Finish(n, result) ==
    IF cmds[n].settled
    THEN UNCHANGED <<cmds, stack, hist>>
    ELSE /\ cmds' = [cmds EXCEPT ![n].settled = TRUE, ![n].result = result,
                                 ![n].timer = IF @ = "armed" THEN "cleared" ELSE @]
         /\ stack' = SetTop([Top EXCEPT !.pc = Top.after, !.cres = result])
         /\ hist' = Append(hist, [e |-> "resolved", path |-> Top.path, n |-> n,
                                  res |-> StepResult(result.timedOut, result.code, Undefined),
                                  ctx0 |-> Top.ctx0, ctx |-> ctx, j0 |-> Top.j0,
                                  j |-> Len(journal) + 1])

Remove(seq, i) == SubSeq(seq, 1, i - 1) \o SubSeq(seq, i + 1, Len(seq))

(***************************************************************************)
(* logging.ts: appendJsonl completes                                       *)
(***************************************************************************)
\* A timer callback that settles the promise itself after the kill
Land_TimerSettles(i) ==
    /\ LoopIdle
    /\ journal' = Append(journal, pending[i].rec)
    /\ pending' = Remove(pending, i)
    /\ LET k == pending[i].k
       IN  CASE k.h = "timer" ->
                  Finish(k.n, CommandResult(Null, Null, TRUE))
             [] k.h = "error" ->
                  Finish(k.n, CommandResult(Num(-1), Null, cmds[k.n].timedOut))
             [] k.h = "close" ->
                  Finish(k.n, CommandResult(k.code, k.signal, cmds[k.n].timedOut))
             [] OTHER -> UNCHANGED <<cmds, stack, hist>>
    /\ UNCHANGED <<wf, ctx, run, exc, clock, env>>

\* fs.appendFile wrote the record; whoever awaited it goes on. Writes issued
\* while another is in progress complete in either order.
Land(i) ==
    /\ LoopIdle
    /\ journal' = Append(journal, pending[i].rec)
    /\ pending' = Remove(pending, i)
    /\ LET k == pending[i].k
       IN  CASE k.h = "timer" ->
                  \* child.kill()
                  /\ cmds' = [cmds EXCEPT ![k.n].killed = ~cmds[k.n].closeEv,
                                          ![k.n].timer = "killed"]
                  /\ UNCHANGED <<stack, hist>>
             [] k.h = "error" ->
                  Finish(k.n, CommandResult(Num(-1), Null, cmds[k.n].timedOut))
             [] k.h = "close" ->
                  Finish(k.n, CommandResult(k.code, k.signal, cmds[k.n].timedOut))
             [] OTHER -> UNCHANGED <<cmds, stack, hist>>
    /\ UNCHANGED <<wf, ctx, run, exc, clock, env>>

\* fs.appendFile failed and the main flow awaited it: the await throws
LandFailAwaited(i) ==
    /\ LoopIdle
    /\ env.faults > 0
    /\ pending[i].k.h = "main"
    /\ env' = [env EXCEPT !.faults = @ - 1]
    /\ pending' = Remove(pending, i)
    /\ exc' = <<"EIO: appendFile">>
    /\ Observe("write_failed", <<>>, i, StepResult(FALSE, Null, Text(<<pending[i].rec.kind>>)))
    /\ UNCHANGED <<wf, ctx, run, stack, journal, clock, cmds>>

\* fs.appendFile failed and nothing handles the rejection (a void call, or an
\* async listener or timer callback): the rest of that callback never runs,
\* and Node either ends the process (its default) or only warns.
LandFailUnhandled(i, ends) ==
    /\ LoopIdle
    /\ env.faults > 0
    /\ pending[i].k.h # "main"
    /\ env' = [env EXCEPT !.faults = @ - 1]
    /\ pending' = Remove(pending, i)
    /\ run' = IF ends THEN [run EXCEPT !.pc = "crashed"] ELSE run
    /\ Observe("write_failed", <<>>, i, StepResult(FALSE, Null, Text(<<pending[i].rec.kind>>)))
    /\ UNCHANGED <<wf, ctx, stack, exc, journal, clock, cmds>>


(***************************************************************************)
(* The runs explored                                                       *)
(***************************************************************************)
MaxRetries == 2
MaxRounds == 3
MaxChunks == 2
MaxErrors == 1
MaxFaults == 1
MaxSignals == 1

\* {{idea}}==''
IfIdeaEmpty == Str(<<"{", "{", "i", "d", "e", "a", "}", "}", "=", "=", "'", "'">>)
\* {{round}}==2
UntilRound2 == Str(<<"{", "{", "r", "o", "u", "n", "d", "}", "}", "=", "=", "2">>)
\* {{last_exit_code}}!=0
UntilFailed ==
    Str(<<"{", "{", "l", "a", "s", "t", "_", "e", "x", "i", "t", "_", "c", "o", "d", "e",
          "}", "}", "!", "=", "0">>)
\* a text Number() turns into NaN
NotANumber == Str(<<"x">>)

Shell(id) == [BaseStep(id, "shell") EXCEPT !.command = Str(<<"c">>)]
Codex(id) == [BaseStep(id, "codex") EXCEPT !.prompt = Str(<<"p">>)]
Repeat(id, bound, until, steps) ==
    [BaseStep(id, "repeat") EXCEPT !.max_rounds = bound, !.until = until, !.steps = steps]

\* The kinds of step other than repeat, with and without what they require
LeafKinds ==
    {Shell("s1"), BaseStep("s1", "shell"), Codex("s1"), BaseStep("s1", "codex"),
     [BaseStep("s1", "codex") EXCEPT !.prompt_file = Str(<<"f">>)],
     BaseStep("s1", "verify"), BaseStep("s1", "report"), BaseStep("s1", "deploy")}

RetryValues == {Undefined, Num(-1), NotANumber} \cup {Num(n) : n \in 0..MaxRetries}
BoundValues == {Undefined, Num(-1), Num(0), NotANumber} \cup {Num(n) : n \in 1..MaxRounds}

\* One step under every retry policy, then a second step
RetryWorkflows ==
    {<<[k EXCEPT !.retries = r, !.continue_on_error = c, !.record = rec, !.if = g],
       Shell("s2")>> :
        k \in LeafKinds, r \in RetryValues, c \in BOOLEAN,
        rec \in {Undefined, Bool(FALSE)}, g \in {Undefined, IfIdeaEmpty}}

\* The nested lists of the repeat steps explored
NestedLists ==
    {<<>>,
     <<Shell("a")>>,
     <<Shell("a"), Shell("b")>>,
     <<[Shell("a") EXCEPT !.continue_on_error = TRUE], Shell("b")>>,
     <<[Shell("a") EXCEPT !.retries = Num(1)]>>,
     <<[Shell("a") EXCEPT !.if = IfIdeaEmpty], Shell("b")>>,
     <<Repeat("r", Num(2), Undefined, <<Shell("a")>>), Shell("b")>>,
     <<Repeat("r", Num(0), Undefined, <<Shell("a")>>), Shell("b")>>,
     <<[Repeat("r", Num(1), Undefined, <<Shell("a")>>) EXCEPT !.continue_on_error = TRUE],
       [Shell("b") EXCEPT !.if = IfIdeaEmpty]>>}

\* One repeat step under every bound and until-expression, then a second step
RepeatWorkflows ==
    {<<Repeat("s1", Num(b), u, l), Shell("s2")>> :
        b \in 1..MaxRounds, u \in {Undefined, UntilRound2, UntilFailed}, l \in NestedLists}
    \cup
    {<<[Repeat("s1", b, Undefined, <<Shell("a")>>) EXCEPT
            !.continue_on_error = c, !.if = g, !.record = rec],
       Shell("s2")>> :
        b \in BoundValues, c \in BOOLEAN, g \in {Undefined, IfIdeaEmpty},
        rec \in {Undefined, Bool(FALSE)}}
    \cup
    {<<[Repeat("s1", Num(2), u, <<Shell("a")>>) EXCEPT !.continue_on_error = TRUE],
       Shell("s2")>> :
        u \in {UntilRound2, UntilFailed}}

\* The steps that run one command
CommandKinds == {Shell("s1"), Codex("s1")}

\* Runs in which a write fails
FaultWorkflows ==
    {<<[k EXCEPT !.retries = r, !.continue_on_error = c], Shell("s2")>> :
        k \in {Shell("s1"), BaseStep("s1", "report"), BaseStep("s1", "verify"),
               [Shell("s1") EXCEPT !.if = IfIdeaEmpty]},
        r \in {Undefined, Num(1)}, c \in BOOLEAN}
    \cup {<<Repeat("s1", Num(2), Undefined, <<Shell("a")>>), Shell("s2")>>}

RECURSIVE HasGuard(_)
HasGuard(steps) ==
    \E i \in 1..Len(steps) : steps[i].if # Undefined \/ HasGuard(steps[i].steps)
\* The idea texts a workflow is run with (main() refuses an empty one): the
\* text '' is the one that makes the guard {{idea}}=='' hold
Ideas(steps) == IF HasGuard(steps) THEN {<<"x">>, <<"'", "'">>} ELSE {<<"x">>}

\* What the project directory offers runVerify
Projects(steps) ==
    IF \E i \in 1..Len(steps) : steps[i].type = "verify"
    THEN {"package.json", "cli.py", "none"}
    ELSE {"none"}

Env(chunks, errors, faults, project) ==
    [chunks |-> chunks, errors |-> errors, faults |-> faults, project |-> project,
     signals |-> 0]

\* The state cmdInbox builds before it calls runWorkflow
InitContext(idea) ==
    [projectName |-> <<"p">>, idea |-> idea, projectDir |-> <<"d">>,
     vars |-> << <<<<"n">>, <<"2">>>> >>,
     round |-> 0, lastExitCode |-> Null,
     verify |-> VerifyOutcome(FALSE, <<>>, Null, TRUE, Undefined)]

Start(steps, idea, e) ==
    /\ wf = steps
    /\ ctx = InitContext(idea)
    /\ run = [pc |-> "loop", idx |-> 1, success |-> FALSE,
              res |-> StepResult(FALSE, Null, Undefined)]
    /\ stack = <<>>
    /\ exc = <<>>
    /\ journal = <<>>
    /\ pending = <<>>
    /\ clock = 1
    /\ cmds = <<>>
    /\ env = e
    /\ hist = <<>>

InitRetry ==
    \E w \in RetryWorkflows : \E idea \in Ideas(w) : \E p \in Projects(w) :
        Start(w, idea, Env(0, 0, 0, p))
\* and one repeat step whose nested commands can fail to spawn
InitRepeat ==
    \/ \E w \in RepeatWorkflows : \E idea \in Ideas(w) :
          Start(w, idea, Env(0, 0, 0, "none"))
    \/ Start(<<Repeat("s1", Num(1), Undefined, <<Shell("a"), Shell("b")>>)>>, <<"x">>,
             Env(0, MaxErrors, 0, "none"))
\* One command: with output; with output under a timeout; with an 'error' event
\* under a timeout; with an 'error' event, a second attempt and a second step
InitCommand ==
    \E k \in CommandKinds :
        \/ Start(<<k>>, <<"x">>, Env(MaxChunks, 0, 0, "none"))
        \/ Start(<<[k EXCEPT !.timeout_sec = Num(1)]>>, <<"x">>,
                 Env(MaxChunks - 1, 0, 0, "none"))
        \/ Start(<<[k EXCEPT !.timeout_sec = Num(1)]>>, <<"x">>,
                 Env(0, MaxErrors, 0, "none"))
        \/ Start(<<[k EXCEPT !.retries = Num(1)], Shell("s2")>>, <<"x">>,
                 Env(0, MaxErrors, 0, "none"))
InitFault ==
    \E w \in FaultWorkflows : \E idea \in Ideas(w) : \E p \in Projects(w) :
        Start(w, idea, Env(0, 0, MaxFaults, p))

\* A verify step whose verification command can be ended by a signal
InitSignal ==
    \E p \in {"package.json", "cli.py"} :
        Start(<<BaseStep("s1", "verify"), Shell("s2")>>, <<"x">>,
              [Env(0, 0, 0, p) EXCEPT !.signals = MaxSignals])

Init == InitRetry \/ InitRepeat \/ InitCommand \/ InitFault \/ InitSignal

Next ==
    \/ RunWorkflowNext
    \/ RunWorkflowCheck
    \/ CmdInboxResult
    \/ CmdInboxReturn
    \/ ExecStepEnter
    \/ ExecStepSkipped
    \/ RepeatRoundStart
    \/ RepeatNextSub
    \/ RepeatSubCheck
    \/ RepeatRoundEnd
    \/ RepeatUntil
    \/ RepeatReturn
    \/ AttemptStart
    \/ ExecSingleStep
    \/ CodexRun
    \/ ExecDone
    \/ ReportDone
    \/ RunVerifyDetect
    \/ RunVerifyNpm
    \/ RunVerifyOne
    \/ RunVerifyEnd
    \/ VerifyDone
    \/ AttemptEnd
    \/ AttemptCheck
    \/ RetryReturn
    \/ Catch
    \/ Abort
    \/ CmdSpawn
    \/ \E n \in 1..Len(cmds) : \E stream \in {"stdout", "stderr"} : ChildData(n, stream)
    \/ \E n \in 1..Len(cmds) : TimerFire(n)
    \/ \E n \in 1..Len(cmds) : ChildError(n)
    \/ \E n \in 1..Len(cmds) : \E r \in CloseReports(cmds[n]) : ChildClose(n, r[1], r[2])
    \/ \E n \in 1..Len(cmds) : ChildSignalled(n)
    \/ \E i \in 1..Len(pending) : Land(i)
    \/ \E i \in 1..Len(pending) : LandFailAwaited(i)
    \/ \E i \in 1..Len(pending) : \E ends \in BOOLEAN : LandFailUnhandled(i, ends)

Spec == Init /\ [][Next]_vars

\* The runs of one command step (InitCommand): the steps such a run can take
CommandNext ==
    \/ RunWorkflowNext
    \/ RunWorkflowCheck
    \/ CmdInboxResult
    \/ CmdInboxReturn
    \/ ExecStepEnter
    \/ AttemptStart
    \/ ExecSingleStep
    \/ CodexRun
    \/ ExecDone
    \/ AttemptEnd
    \/ AttemptCheck
    \/ RetryReturn
    \/ CmdSpawn
    \/ \E n \in 1..Len(cmds) : \E stream \in {"stdout", "stderr"} : ChildData(n, stream)
    \/ \E n \in 1..Len(cmds) : TimerFire(n)
    \/ \E n \in 1..Len(cmds) : ChildError(n)
    \/ \E n \in 1..Len(cmds) : \E r \in CloseReports(cmds[n]) : ChildClose(n, r[1], r[2])
    \/ \E i \in 1..Len(pending) : Land(i)

\* Node runs whatever is runnable: a continuation of the main flow, a completed
\* write, a timer that is due, an event of a child process.
LiveSpec == InitCommand /\ [][CommandNext]_vars /\ WF_vars(CommandNext)

\* The command invocations of one run that the liveness properties range over
MaxCommands == 3

\* The runs in which every journal write completes and no process is ended
\* from outside: every workflow of InitRetry, InitRepeat and InitCommand
FaultFreeInit == InitRetry \/ InitRepeat \/ InitCommand
\* The steps of such a run that evaluate a condition (the guard, the
\* until-expression) and the others
EvaluatingStep == ExecStepEnter \/ RepeatUntil
OtherStep ==
    \/ RunWorkflowNext
    \/ RunWorkflowCheck
    \/ CmdInboxResult
    \/ CmdInboxReturn
    \/ ExecStepSkipped
    \/ RepeatRoundStart
    \/ RepeatNextSub
    \/ RepeatSubCheck
    \/ RepeatRoundEnd
    \/ RepeatReturn
    \/ AttemptStart
    \/ ExecSingleStep
    \/ CodexRun
    \/ ExecDone
    \/ ReportDone
    \/ RunVerifyDetect
    \/ RunVerifyNpm
    \/ RunVerifyOne
    \/ RunVerifyEnd
    \/ VerifyDone
    \/ AttemptEnd
    \/ AttemptCheck
    \/ RetryReturn
    \/ Catch
    \/ Abort
    \/ CmdSpawn
    \/ \E n \in 1..Len(cmds) : \E stream \in {"stdout", "stderr"} : ChildData(n, stream)
    \/ \E n \in 1..Len(cmds) : TimerFire(n)
    \/ \E n \in 1..Len(cmds) : ChildError(n)
    \/ \E n \in 1..Len(cmds) : \E r \in CloseReports(cmds[n]) : ChildClose(n, r[1], r[2])
    \/ \E i \in 1..Len(pending) : Land(i)
FaultFreeNext == EvaluatingStep \/ OtherStep

\* An evaluating step is enabled exactly when execStep is at its entry or at
\* its until test: each of the two always changes the activation
EvaluationDue == InStep("enter") \/ InStep("until")
\* Weak fairness of the evaluating steps, with their enabling condition written out
EvaluationHappens == []<>(~EvaluationDue) \/ []<><<EvaluatingStep>>_vars

\* Every process that was spawned closes or errors and every write completes:
\* Node delivers each of these events, and runs each continuation, in the end
FaultFreeSpec ==
    FaultFreeInit /\ [][FaultFreeNext]_vars /\ WF_vars(OtherStep) /\ EvaluationHappens

(***************************************************************************)
(* renderTemplate on its own: a codex step whose prompt holds placeholders *)
(***************************************************************************)
\* a.b.c from its segments
RECURSIVE Dotted(_)
Dotted(segs) ==
    IF Len(segs) = 1 THEN segs[1] ELSE segs[1] \o <<".">> \o Dotted(Tail(segs))

K_unknown == <<"u", "n", "k", "n", "o", "w", "n">>
\* Paths that name nothing in the template data, by the way they fail
MissingFirst == {Dotted(<<K_unknown>>), Dotted(<<K_unknown, <<"p", "a", "t", "h">>>>),
                 Dotted(<<K_constructor>>), Dotted(<<K_toString>>)}
MissingNested == {Dotted(<<K_verify, <<"n", "o", "p", "e">>>>),
                  Dotted(<<K_verify, K_constructor>>)}
ThroughNonObject == {Dotted(<<K_idea, <<"x">>>>), Dotted(<<K_round, <<"x">>>>),
                     Dotted(<<K_last_exit_code, <<"x">>>>),
                     Dotted(<<K_verify, K_reason, <<"x">>>>),
                     Dotted(<<K_constructor, <<"n", "a", "m", "e">>>>)}
\* Paths that name a value of the template data
Resolving == {Dotted(<<K_idea>>), Dotted(<<K_round>>), Dotted(<<K_last_exit_code>>),
              Dotted(<<K_verify>>), Dotted(<<K_verify, K_passed>>),
              Dotted(<<K_verify, K_reason>>), Dotted(<<<<"n">>>>)}
RenderPaths == MissingFirst \cup MissingNested \cup ThroughNonObject \cup Resolving

\* Text around one placeholder, with and without blanks inside the braces
Placeholder(path, sp) == <<"{", "{">> \o sp \o path \o sp \o <<"}", "}">>
RenderTemplates ==
    {<<"a">> \o Placeholder(p, sp) \o <<"b">> : p \in RenderPaths, sp \in {<<>>, <<" ">>}}
    \cup {Placeholder(p, <<>>) \o <<"-">> \o Placeholder(q, <<>>) :
            p \in MissingFirst, q \in MissingNested}

RenderContexts ==
    {[InitContext(<<"x">>) EXCEPT !.round = r, !.lastExitCode = c, !.verify.reason = why] :
        r \in {0, 1}, c \in {Null, Num(1)}, why \in {Undefined, Str(<<"w">>)}}

InitRender ==
    \E tpl \in RenderTemplates : \E c \in RenderContexts :
        /\ wf = <<[BaseStep("s1", "codex") EXCEPT !.prompt = Str(tpl)]>>
        /\ ctx = c
        /\ run = [pc |-> "render", idx |-> 1, success |-> FALSE,
                  res |-> StepResult(FALSE, Null, Undefined)]
        /\ stack = <<>>
        /\ exc = <<>>
        /\ journal = <<>>
        /\ pending = <<>>
        /\ clock = 1
        /\ cmds = <<>>
        /\ env = Env(0, 0, 0, "none")
        /\ hist = <<>>

\* const data = templateData(ctx); prompt = renderTemplate(step.prompt, data);
RenderPrompt ==
    /\ run.pc = "render"
    /\ Truthy(wf[1].prompt)
    /\ Observe("prompt", <<1>>, 0, Str(renderTemplate(wf[1].prompt.v, templateData(ctx))))
    /\ run' = [run EXCEPT !.pc = "rendered"]
    /\ UNCHANGED <<wf, ctx, stack, exc, journal, pending, clock, cmds, env>>

RenderSpec == InitRender /\ [][RenderPrompt]_vars


(***************************************************************************)
(* evalCond on its own: a step whose guard is one of the expressions below *)
(***************************************************************************)
\* Two tokens around ==
EqualityExprs ==
    {<<"'", "a", "'", "=", "=", "'", "a", "'">>,
     <<"'", "a", "'", "=", "=", "'", "b", "'">>,
     <<"1", "=", "=", "1">>,
     <<"1", "=", "=", "'", "1", "'">>,
     <<"1", "=", "=", "1", ".", "0">>,
     <<"-", "0", "=", "=", "0">>,
     <<"'", "t", "r", "u", "e", "'", "=", "=", "t", "r", "u", "e">>,
     <<"t", "r", "u", "e", "=", "=", "t", "r", "u", "e">>,
     <<"n", "u", "l", "l", "=", "=", "u", "n", "k", "n", "o", "w", "n">>,
     <<"n", "u", "l", "l", "=", "=", "n", "u", "l", "l">>,
     <<"u", "n", "k", "n", "o", "w", "n", "=", "=", "m", "i", "s", "s", "i", "n", "g">>,
     <<"\"", "a", "\"", "=", "=", "'", "a", "'">>,
     <<" ", "1", " ", "=", "=", " ", "1", " ">>,
     <<"{", "{", "r", "o", "u", "n", "d", "}", "}", "=", "=", "0">>,
     <<"{", "{", "i", "d", "e", "a", "}", "}", "=", "=", "'", "x", "'">>,
     <<"i", "d", "e", "a", "=", "=", "'", "x", "'">>,
     <<"{", "{", "l", "a", "s", "t", "_", "e", "x", "i", "t", "_", "c", "o", "d", "e", "}", "}", "=", "=", "n", "u", "l", "l">>,
     <<"v", "e", "r", "i", "f", "y", ".", "p", "a", "s", "s", "e", "d", "=", "=", "f", "a", "l", "s", "e">>,
     <<"'", "'", "=", "=", "'", "'">>}
\* Two tokens around !=
InequalityExprs ==
    {<<"'", "a", "'", "!", "=", "'", "b", "'">>,
     <<"'", "a", "'", "!", "=", "'", "a", "'">>,
     <<"1", "!", "=", "'", "1", "'">>,
     <<"0", "!", "=", "f", "a", "l", "s", "e">>,
     <<"{", "{", "l", "a", "s", "t", "_", "e", "x", "i", "t", "_", "c", "o", "d", "e", "}", "}", "!", "=", "0">>,
     <<"{", "{", "r", "o", "u", "n", "d", "}", "}", "!", "=", "0">>,
     <<"n", "u", "l", "l", "!", "=", "u", "n", "k", "n", "o", "w", "n">>}
\* Both operators, or an operator inside a quoted literal
BothOperatorExprs ==
    {<<"1", "!", "=", "2", "=", "=", "t", "r", "u", "e">>,
     <<"1", "=", "=", "1", "!", "=", "2">>,
     <<"'", "a", "=", "=", "b", "'", "!", "=", "'", "a", "=", "=", "b", "'">>,
     <<"'", "a", "!", "=", "b", "'", "=", "=", "'", "a", "!", "=", "b", "'">>,
     <<"'", "a", "!", "=", "b", "'">>,
     <<"'", "a", "=", "=", "b", "'">>,
     <<"1", "!", "=", "=", "1">>}
\* One token
SingleTokenExprs ==
    {<<"t", "r", "u", "e">>,
     <<"f", "a", "l", "s", "e">>,
     <<"n", "u", "l", "l">>,
     <<"0">>,
     <<"1">>,
     <<"-", "0">>,
     <<"0", ".", "0">>,
     <<"1", ".", "5", "0">>,
     <<"-", "1">>,
     <<"'", "'">>,
     <<"'", "a", "'">>,
     <<"'", "0", "'">>,
     <<"'", "f", "a", "l", "s", "e", "'">>,
     <<"\"", "\"">>,
     <<"i", "d", "e", "a">>,
     <<"u", "n", "k", "n", "o", "w", "n">>,
     <<"r", "o", "u", "n", "d">>,
     <<"l", "a", "s", "t", "_", "e", "x", "i", "t", "_", "c", "o", "d", "e">>,
     <<"v", "e", "r", "i", "f", "y">>,
     <<"v", "e", "r", "i", "f", "y", ".", "p", "a", "s", "s", "e", "d">>,
     <<"v", "e", "r", "i", "f", "y", ".", "s", "k", "i", "p", "p", "e", "d">>,
     <<"v", "e", "r", "i", "f", "y", ".", "r", "e", "a", "s", "o", "n">>,
     <<"n">>,
     <<"{", "{", "i", "d", "e", "a", "}", "}">>,
     <<"{", "{", "r", "o", "u", "n", "d", "}", "}">>,
     <<"{", "{", "u", "n", "k", "n", "o", "w", "n", "}", "}">>,
     <<" ", " ">>,
     <<"1", ".">>,
     <<"0", "1">>,
     <<"'">>}
CondExprs == EqualityExprs \cup InequalityExprs \cup BothOperatorExprs \cup SingleTokenExprs

\* Contexts before and after a round and a command; one has a variable whose
\* name is the word true and whose value is the empty string
CondContexts ==
    {[InitContext(<<"x">>) EXCEPT !.round = r, !.lastExitCode = c, !.vars = v] :
        r \in {0, 1}, c \in {Null, Num(0), Num(1)},
        v \in {<< <<<<"n">>, <<"2">>>> >>, << <<<<"t", "r", "u", "e">>, <<>>>> >>}}

InitCond ==
    \E expr \in CondExprs : \E c \in CondContexts :
        /\ wf = <<[Shell("s1") EXCEPT !.if = Str(expr)]>>
        /\ ctx = c
        /\ run = [pc |-> "guard", idx |-> 1, success |-> FALSE,
                  res |-> StepResult(FALSE, Null, Undefined)]
        /\ stack = <<>>
        /\ exc = <<>>
        /\ journal = <<>>
        /\ pending = <<>>
        /\ clock = 1
        /\ cmds = <<>>
        /\ env = Env(0, 0, 0, "none")
        /\ hist = <<>>

\* evalCond(step.if, templateData(ctx)), as execStep calls it for the guard
EvalGuard ==
    /\ run.pc = "guard"
    /\ Observe("cond", <<1>>, 0,
               StepResult(evalCond(wf[1].if.v, templateData(ctx)), Null, Undefined))
    /\ run' = [run EXCEPT !.pc = "guarded"]
    /\ UNCHANGED <<wf, ctx, stack, exc, journal, pending, clock, cmds, env>>

CondSpec == InitCond /\ [][EvalGuard]_vars


(***************************************************************************)
(* Reading the observation and the journal                                 *)
(***************************************************************************)
Returns == {k \in 1..Len(hist) : hist[k].e = "return"}
\* The call that the return at position k of hist ends
CallOf(k) ==
    CHOOSE c \in 1..(k - 1) :
        /\ hist[c].e = "call" /\ hist[c].path = hist[k].path
        /\ \A d \in (c + 1)..(k - 1) : ~(hist[d].e = "call" /\ hist[d].path = hist[k].path)
\* What happened during the call that the return at k ends
During(k) == (CallOf(k) + 1)..(k - 1)
AttemptsOf(k) == {x \in During(k) : hist[x].e = "attempt" /\ hist[x].path = hist[k].path}
RoundsOf(k) == {x \in During(k) : hist[x].e = "round" /\ hist[x].path = hist[k].path}
UntilsOf(k) == {x \in During(k) : hist[x].e = "until" /\ hist[x].path = hist[k].path}
\* The calls (returns) of the steps nested directly in the step of the return at k
IsChildOf(x, k) ==
    /\ Len(hist[x].path) = Len(hist[k].path) + 1
    /\ SubSeq(hist[x].path, 1, Len(hist[k].path)) = hist[k].path
ChildCallsOf(k) == {x \in During(k) : hist[x].e = "call" /\ IsChildOf(x, k)}
ChildReturnsOf(k) == {x \in During(k) : hist[x].e = "return" /\ IsChildOf(x, k)}

\* The elements of a set of positions, in increasing order
RECURSIVE Sorted(_)
Sorted(S) ==
    IF S = {} THEN <<>>
    ELSE LET m == CHOOSE x \in S : \A y \in S : x <= y
         IN  <<m>> \o Sorted(S \ {m})

\* The guard of the step was declared and evaluated false when the call began
GuardWasFalse(k) ==
    LET step == StepAt(hist[k].path)
    IN  Truthy(step.if) /\ ~evalCond(step.if.v, templateData(hist[k].ctx0))

\* The last attempt of the call failed (so every attempt did: the loop stops at
\* the first success), whether or not the result was then overridden
LastAttemptFailed(k) ==
    \/ ~hist[k].res.success
    \/ /\ hist[k].res.detail.t = "string"
       /\ Head(hist[k].res.detail.v) = "continue_on_error=true; "

IsCount(x) == x.t = "number" /\ ~x.v[1] /\ x.v[3] = <<>>

\* The records written during the call that the return at k ends
JournalDuring(k) == SubSeq(journal, hist[k].j0 + 1, hist[k].j)
StepRecords(recs, id) ==
    LET Mine(r) == /\ r.kind \in {"workflow_step_start", "workflow_step_end"}
                   /\ r.payload.stepId = id
    IN  SelectSeq(recs, Mine)
\* recs is start 1, end 1, ..., start n, end n
IsPairs(recs, n) ==
    /\ Len(recs) = 2 * n
    /\ \A a \in 1..n :
          /\ recs[2 * a - 1].kind = "workflow_step_start"
          /\ recs[2 * a - 1].payload.attempt = a
          /\ recs[2 * a].kind = "workflow_step_end"
          /\ recs[2 * a].payload.attempt = a

\* A step with retries = N, not skipped, all of whose attempts failed, has returned
AlwaysFailing(k) ==
    LET step == StepAt(hist[k].path)
    IN  /\ step.type # "repeat"
        /\ IsCount(step.retries)
        /\ ~GuardWasFalse(k)
        /\ LastAttemptFailed(k)

(***************************************************************************)
(* The claims                                                              *)
(***************************************************************************)
\* C1 (as stated): every non-repeat step with retries = N, not skipped by its
\* guard, whose attempts all fail, is attempted exactly N+1 times and the
\* journal holds exactly N+1 workflow_step_start / workflow_step_end pairs for
\* it, numbered 1..N+1.
C1_PairsForEveryStep ==
    \A k \in Returns :
        AlwaysFailing(k) =>
            LET step == StepAt(hist[k].path)
                N == step.retries.v[2]
            IN  /\ Cardinality(AttemptsOf(k)) = N + 1
                /\ IsPairs(StepRecords(JournalDuring(k), step.id), N + 1)

\* C1 (amended): such a step is attempted exactly N+1 times, and unless its
\* journal emission is suppressed (record: false) the journal holds exactly
\* N+1 start/end pairs for it, numbered 1..N+1.
C1_AttemptsAndPairs ==
    \A k \in Returns :
        AlwaysFailing(k) =>
            LET step == StepAt(hist[k].path)
                N == step.retries.v[2]
            IN  /\ Cardinality(AttemptsOf(k)) = N + 1
                /\ \A x \in AttemptsOf(k) : hist[x].n \in 1..(N + 1)
                /\ Records(step) =>
                      IsPairs(StepRecords(JournalDuring(k), step.id), N + 1)

\* A step with retries = 2 and journal emission has failed three times and returned
C1_Witness ==
    \E k \in Returns :
        /\ AlwaysFailing(k)
        /\ StepAt(hist[k].path).retries = Num(MaxRetries)
        /\ Records(StepAt(hist[k].path))
        /\ Cardinality(AttemptsOf(k)) = MaxRetries + 1

TopCalls ==
    LET IsTop(h) == h.e = "call" /\ Len(h.path) = 1 IN SelectSeq(hist, IsTop)
TopReturns ==
    LET IsTop(h) == h.e = "return" /\ Len(h.path) = 1 IN SelectSeq(hist, IsTop)
\* The i-th top-level step returned a failure and is not flagged continue_on_error
FailedIntolerant(i) == ~TopReturns[i].res.success /\ ~wf[i].continue_on_error
RunWorkflowReturned == run.pc \in {"result", "exit", "done"}

\* C2: runWorkflow starts the top-level steps in list order; after the first
\* step that returns a failure and is not tolerant no later step is started
\* and runWorkflow returns false; with no such step it runs every step and
\* returns true. A shell step with retries 1 that fails is attempted exactly
\* twice and the run fails.
C2_RunWorkflowOrder ==
    /\ \A i \in 1..Len(TopCalls) : TopCalls[i].path = <<i>>
    /\ Len(TopCalls) <= Len(TopReturns) + 1
    /\ \A i \in 1..Len(TopReturns) : FailedIntolerant(i) => Len(TopCalls) = i
    /\ RunWorkflowReturned =>
          IF run.success
          THEN /\ Len(TopReturns) = Len(wf)
               /\ \A i \in 1..Len(wf) : ~FailedIntolerant(i)
          ELSE /\ Len(TopReturns) >= 1
               /\ FailedIntolerant(Len(TopReturns))
    /\ \A k \in Returns :
          LET step == StepAt(hist[k].path)
          IN  (/\ Len(hist[k].path) = 1 /\ step.type = "shell" /\ step.retries = Num(1)
               /\ ~step.continue_on_error /\ ~GuardWasFalse(k) /\ ~hist[k].res.success)
              => /\ Cardinality(AttemptsOf(k)) = 2
                 /\ RunWorkflowReturned => ~run.success

\* runWorkflow returned false after the first of two steps failed its two attempts
C2_Witness ==
    /\ run.pc = "done" /\ ~run.success
    /\ Len(wf) = 2 /\ Len(TopCalls) = 1 /\ Len(TopReturns) = 1
    /\ wf[1].type = "shell" /\ wf[1].retries = Num(1)
    /\ \E k \in Returns : hist[k].path = <<1>> /\ Cardinality(AttemptsOf(k)) = 2


CommandKinds6 == {"command_start", "stdout", "stderr", "command_timeout",
                  "command_error", "command_end"}
\* The positions of the journal's records of the given kinds for a command
RecordsOf(commandId, kinds) ==
    {i \in 1..Len(journal) :
        /\ journal[i].kind \in (kinds \cap CommandKinds6)
        /\ journal[i].payload.commandId = commandId}

\* C3 (as stated): every runCommandWithLogging call appends exactly one
\* command_start record and exactly one terminal record (command_end or
\* command_error, never both, never two) with its commandId, whatever the
\* order of the child's 'error' and 'close' events.
C3_OneTerminalRecord ==
    \A n \in 1..Len(cmds) :
        /\ Cardinality(RecordsOf(cmds[n].commandId, {"command_start"})) = 1
        /\ Cardinality(RecordsOf(cmds[n].commandId, {"command_end", "command_error"})) <= 1
        /\ cmds[n].settled =>
              Cardinality(RecordsOf(cmds[n].commandId, {"command_end", "command_error"})) = 1

\* C4 (as stated): when the timeout elapsed before the process ended (the
\* command_end record says timedOut), the returned CommandResult has
\* timedOut = true and the step attempt is a failure, whatever exit code the
\* process reported.
C4_TimeoutFailsAttempt ==
    \A x \in 1..Len(stack) :
        (/\ stack[x].pc = "attempt_end"
         /\ StepAt(stack[x].path).type \in {"shell", "codex"}
         /\ \E i \in RecordsOf(stack[x].commandId, {"command_end"}) :
               journal[i].payload.timedOut)
        => /\ stack[x].cres.timedOut
           /\ ~stack[x].last.success

IsCodexWithoutPrompt(step) ==
    step.type = "codex" /\ ~Truthy(step.prompt) /\ ~Truthy(step.prompt_file)

\* C5 (as stated): a codex step with neither prompt nor prompt_file is a
\* fatal configuration error: it is attempted at most once, the run aborts at
\* it, continue_on_error does not make it a success and no later step runs.
C5_MissingPromptIsFatal ==
    \A x \in 1..Len(hist) :
        (hist[x].e = "attempt" /\ IsCodexWithoutPrompt(StepAt(hist[x].path)))
        => /\ hist[x].n = 1
           /\ \A y \in (x + 1)..Len(hist) : hist[y].e = "abort"

\* C6 (as stated): once an appendJsonl call has failed, the error aborts the
\* run: no attempt is made and no step returns a result afterwards.
C6_WriteFailureAborts ==
    \A x \in 1..Len(hist) :
        hist[x].e = "write_failed"
        => \A y \in (x + 1)..Len(hist) : hist[y].e \in {"abort", "write_failed"}

\* A repeat step with a declared bound B, not skipped, has returned
RepeatReturned(k) ==
    LET step == StepAt(hist[k].path)
    IN  step.type = "repeat" /\ IsCount(step.max_rounds) /\ ~GuardWasFalse(k)

\* No step nested directly in it returned a failure without being tolerant
NoIntolerantFailure(k) ==
    \A x \in ChildReturnsOf(k) :
        hist[x].res.success \/ StepAt(hist[x].path).continue_on_error

\* C7: a repeat step with bound B > 0 and no until-expression, none of whose
\* nested steps fails non-tolerantly, runs rounds 1..B in order and in each
\* of them its whole nested list in order.
C7_RepeatRunsAllRounds ==
    \A k \in Returns :
        (/\ RepeatReturned(k)
         /\ ~Truthy(StepAt(hist[k].path).until)
         /\ NoIntolerantFailure(k))
        => LET step == StepAt(hist[k].path)
               B == step.max_rounds.v[2]
               m == Len(step.steps)
               rounds == Sorted(RoundsOf(k))
               calls == Sorted(ChildCallsOf(k))
           IN  /\ Len(rounds) = B
               /\ \A i \in 1..B : hist[rounds[i]].n = i
               /\ Len(calls) = B * m
               /\ \A q \in 1..Len(calls) :
                     /\ hist[calls[q]].path = hist[k].path \o <<((q - 1) % m) + 1>>
                     /\ rounds[((q - 1) \div m) + 1] < calls[q]
                     /\ ((q - 1) \div m) + 2 <= B => calls[q] < rounds[((q - 1) \div m) + 2]

\* A repeat step with the largest bound and two nested steps ran them all
C7_Witness ==
    \E k \in Returns :
        /\ RepeatReturned(k) /\ ~Truthy(StepAt(hist[k].path).until)
        /\ NoIntolerantFailure(k)
        /\ StepAt(hist[k].path).max_rounds = Num(MaxRounds)
        /\ Cardinality(ChildCallsOf(k)) = 2 * MaxRounds

\* The until-expression of the step, evaluated on the context seen at position u
UntilWasTrue(k, u) ==
    evalCond(StepAt(hist[k].path).until.v, templateData(hist[u].ctx))

HasNestedRepeat(step) == \E i \in 1..Len(step.steps) : step.steps[i].type = "repeat"

\* C8 (as stated): a repeat step whose until-expression is true after round k
\* starts no round after k and returns success, whatever its nested steps
\* returned; with until {{round}}==2 and a bound of at least 2 it runs exactly
\* rounds 1 and 2.
C8_UntilStopsTheLoop ==
    \A k \in Returns :
        (RepeatReturned(k) /\ Truthy(StepAt(hist[k].path).until))
        => /\ \A u \in UntilsOf(k) :
                 UntilWasTrue(k, u)
                 => /\ \A x \in RoundsOf(k) \cup UntilsOf(k) : x <= u
                    /\ hist[k].res.success
           /\ (/\ StepAt(hist[k].path).until = UntilRound2
               /\ StepAt(hist[k].path).max_rounds.v[2] >= 2)
              => /\ Cardinality(RoundsOf(k)) = 2
                 /\ hist[k].res.success

\* What the code does keep of C8: the loop stops at the first round after which
\* the until-expression holds, with success; and until {{round}}==2 stops it
\* after round 2 when no nested repeat step has overwritten ctx.round.
C8_StopsOnceTrue ==
    \A k \in Returns :
        (RepeatReturned(k) /\ Truthy(StepAt(hist[k].path).until))
        => /\ \A u \in UntilsOf(k) :
                 UntilWasTrue(k, u)
                 => /\ \A x \in RoundsOf(k) \cup UntilsOf(k) : x <= u
                    /\ hist[k].res.success
           /\ (/\ StepAt(hist[k].path).until = UntilRound2
               /\ StepAt(hist[k].path).max_rounds.v[2] >= 2
               /\ ~HasNestedRepeat(StepAt(hist[k].path)))
              => /\ Cardinality(RoundsOf(k)) = 2
                 /\ hist[k].res.success

\* until {{round}}==2 under bound 3 stopped the loop after a round that failed
C8_Witness ==
    \E k \in Returns :
        /\ RepeatReturned(k)
        /\ StepAt(hist[k].path).until = UntilRound2
        /\ StepAt(hist[k].path).max_rounds = Num(MaxRounds)
        /\ Cardinality(RoundsOf(k)) = 2
        /\ \E x \in ChildReturnsOf(k) : ~hist[x].res.success
        /\ hist[k].res.success

\* C9: a repeat step whose until-expression is false after every round
\* 1..bound returns failure, even when every nested step succeeded.
C9_UntilNeverMetFails ==
    \A k \in Returns :
        (/\ RepeatReturned(k) /\ Truthy(StepAt(hist[k].path).until)
         /\ \A u \in UntilsOf(k) : ~UntilWasTrue(k, u))
        => /\ ~hist[k].res.success
           /\ Cardinality(UntilsOf(k)) = StepAt(hist[k].path).max_rounds.v[2]

\* Every nested step of every round succeeded, the until-expression never held
C9_Witness ==
    \E k \in Returns :
        /\ RepeatReturned(k) /\ Truthy(StepAt(hist[k].path).until)
        /\ \A u \in UntilsOf(k) : ~UntilWasTrue(k, u)
        /\ Cardinality(UntilsOf(k)) = MaxRounds
        /\ ChildReturnsOf(k) # {}
        /\ \A x \in ChildReturnsOf(k) : hist[x].res.success
        /\ ~hist[k].res.success

\* C10: a step whose declared guard evaluates false returns success with the
\* context's lastExitCode as exit code, makes no attempt (no
\* workflow_step_start, command_start or round record, no nested call) and
\* leaves lastExitCode, round, verify and vars unchanged.
C10_GuardSkip ==
    \A k \in Returns :
        GuardWasFalse(k)
        => /\ hist[k].res.success
           /\ hist[k].res.exitCode = hist[k].ctx0.lastExitCode
           /\ hist[k].ctx = hist[k].ctx0
           /\ \A x \in During(k) : hist[x].e \notin {"attempt", "round", "call", "resolved"}
           /\ \A i \in 1..Len(JournalDuring(k)) :
                 JournalDuring(k)[i].kind \notin
                     {"workflow_step_start", "workflow_step_end", "command_start",
                      "workflow_round_start", "workflow_round_end"}

\* A guarded step was skipped after an earlier command had set lastExitCode
C10_Witness ==
    \E k \in Returns :
        /\ GuardWasFalse(k)
        /\ hist[k].ctx0.lastExitCode = Num(1)
        /\ hist[k].res.exitCode = Num(1)

\* The records of the given kind written during the call that the return at k ends
KindDuring(k, kind) ==
    {i \in 1..Len(JournalDuring(k)) : JournalDuring(k)[i].kind = kind}

\* C11 (as stated): a step with guard {{idea}}=='' is skipped, with no
\* command_start, when the idea text is empty, and is attempted, a shell step
\* with a command emitting command_start, when the idea text is not empty.
C11_IdeaGuard ==
    \A k \in Returns :
        LET step == StepAt(hist[k].path)
        IN  (step.type # "repeat" /\ step.if = IfIdeaEmpty)
            => IF hist[k].ctx0.idea = <<>>
               THEN AttemptsOf(k) = {} /\ KindDuring(k, "command_start") = {}
               ELSE /\ AttemptsOf(k) # {}
                    /\ Truthy(step.command) /\ step.type = "shell"
                          => KindDuring(k, "command_start") # {}

\* The result of the last attempt made during the call that the return at k
\* ends: the initial value of `last` when no attempt was made
ResultsOf(k) == {x \in During(k) : hist[x].e = "result" /\ hist[x].path = hist[k].path}
LastResult(k) ==
    IF ResultsOf(k) = {} THEN StepResult(FALSE, Null, Undefined)
    ELSE hist[CHOOSE x \in ResultsOf(k) : \A y \in ResultsOf(k) : y <= x].res

\* C12: a non-repeat step whose attempts are exhausted with failure returns,
\* when flagged continue_on_error, success with the exit code of the last
\* failed attempt and a detail that starts with continue_on_error=true;
\* without the flag it returns the last attempt's result unchanged.
C12_ToleratedFailure ==
    \A k \in Returns :
        LET step == StepAt(hist[k].path)
            last == LastResult(k)
        IN  (step.type # "repeat" /\ ~GuardWasFalse(k) /\ ~last.success)
            => IF step.continue_on_error
               THEN /\ hist[k].res.success
                    /\ hist[k].res.exitCode = last.exitCode
                    /\ hist[k].res.detail.t = "string"
                    /\ Head(hist[k].res.detail.v) = "continue_on_error=true; "
               ELSE hist[k].res = last

\* A tolerant step with one retry failed twice with exit code 1 and returned success
C12_Witness ==
    \E k \in Returns :
        /\ StepAt(hist[k].path).continue_on_error
        /\ StepAt(hist[k].path).type = "shell"
        /\ Cardinality(ResultsOf(k)) = 2
        /\ ~LastResult(k).success /\ LastResult(k).exitCode = Num(1)
        /\ hist[k].res.success /\ hist[k].res.exitCode = Num(1)

\* C13: when spawning the process fails, a command_error record carrying the
\* failure message is appended and the promise resolves with a failure
\* result (non-zero code, signal unset); the promise resolves in every such
\* execution.
C13_SpawnFailureResolves ==
    \A n \in 1..MaxCommands :
        (Len(cmds) >= n /\ cmds[n].errorEv)
        ~> (/\ Len(cmds) >= n
            /\ cmds[n].settled
            /\ cmds[n].result.code.t = "number" /\ cmds[n].result.code # Num(0)
            /\ cmds[n].result.signal = Null
            /\ \E i \in RecordsOf(cmds[n].commandId, {"command_error"}) :
                  journal[i].payload.message = "spawn ENOENT")

\* The second attempt's spawn failed and its caller has been resumed with a failure
C13_Witness ==
    /\ Len(cmds) >= 2
    /\ cmds[2].errorEv /\ cmds[2].settled
    /\ cmds[2].result.code # Num(0)
    /\ RecordsOf(cmds[2].commandId, {"command_error"}) # {}

\* The step declares a round bound and the bound is a positive number
DeclaresPositiveBound(step) ==
    /\ step.max_rounds.t \notin {"undefined", "null"}
    /\ IsPositive(JsNumber(step.max_rounds))

\* C14 (as stated): a repeat step without a positive round bound (absent,
\* zero, negative, not a number) is a fatal configuration error whatever its
\* guard and its nesting: once execStep is called on it nothing follows but
\* the abort of the run (no round, no nested step, no result, no later step).
C14_BoundlessRepeatIsFatal ==
    \A x \in 1..Len(hist) :
        (/\ hist[x].e = "call"
         /\ StepAt(hist[x].path).type = "repeat"
         /\ ~DeclaresPositiveBound(StepAt(hist[x].path)))
        => \A y \in (x + 1)..Len(hist) : hist[y].e = "abort"

\* C15 (as stated): for every command invocation a command_timeout record
\* precedes the invocation's terminal record; once the terminal record is in
\* the journal no command_timeout record for it is appended (child.kill() is
\* called as that record's write completes, so no kill is sent either).
C15_TimeoutBeforeTerminal ==
    \A n \in 1..Len(cmds) :
        \A i \in RecordsOf(cmds[n].commandId, {"command_timeout"}) :
            \A j \in RecordsOf(cmds[n].commandId, {"command_end", "command_error"}) :
                i < j

\* The chunks received so far on a stream of the n-th invocation
Received(n, stream) == IF stream = "stdout" THEN cmds[n].nout ELSE cmds[n].nerr

\* C16 (as stated): each chunk received on stdout (stderr) gives at most one
\* stdout (stderr) record with the invocation's commandId, none without a
\* chunk, and the records of one stream are in the journal in the order in
\* which the chunks were received.
C16_StreamOrder ==
    \A n \in 1..Len(cmds) : \A stream \in {"stdout", "stderr"} :
        LET recs == RecordsOf(cmds[n].commandId, {stream})
        IN  /\ \A i \in recs : journal[i].payload.text \in 1..Received(n, stream)
            /\ \A i, j \in recs :
                  i < j => journal[i].payload.text < journal[j].payload.text

\* C17 (as stated): the records are in the journal in the order in which
\* their appendJsonl calls were issued (ts is the clock read at the call, and
\* the clock advances from one call to the next): no record is followed by a
\* record with an earlier timestamp.
C17_JournalOrdered ==
    \A i, j \in 1..Len(journal) : i < j => journal[i].ts <= journal[j].ts

\* The journal position of the record that ends an invocation: its first
\* terminal record, after whose write the promise is resolved (0 if none yet)
FirstTerminal(commandId) ==
    LET terms == RecordsOf(commandId, {"command_end", "command_error"})
    IN  IF terms = {} THEN 0 ELSE CHOOSE i \in terms : \A j \in terms : i <= j

\* C18: at most one command invocation is unresolved at any instant, and
\* between the command_start record of an invocation and the terminal record
\* that ends it no workflow_step_start, workflow_step_end or command_start
\* record (of any other step or invocation) is in the journal.
C18_OneStepAtATime ==
    /\ Cardinality({n \in 1..Len(cmds) : ~cmds[n].settled}) <= 1
    /\ \A n \in 1..Len(cmds) :
          \A s \in RecordsOf(cmds[n].commandId, {"command_start"}) :
              LET t == FirstTerminal(cmds[n].commandId)
                  upto == IF t = 0 THEN Len(journal) ELSE t - 1
              IN  \A i \in (s + 1)..upto :
                      journal[i].kind \notin
                          {"workflow_step_start", "workflow_step_end", "command_start"}

\* Three invocations have run one after the other, each ended by a terminal record
C18_Witness ==
    /\ Len(cmds) >= 3
    /\ \A n \in 1..Len(cmds) :
          /\ cmds[n].settled
          /\ FirstTerminal(cmds[n].commandId) > 0
    /\ \E i \in 1..Len(journal) : journal[i].kind = "workflow_round_start"

\* The run is over: cmdInbox has returned or thrown and no write is in flight,
\* or the process has been ended
RunEnded ==
    \/ run.pc \in {"done", "aborted"} /\ pending = <<>>
    \/ run.pc = "crashed"

ResultRecords == {i \in 1..Len(journal) : journal[i].kind = "result"}

\* C19 (as stated): however the run ends, its journal ends with the one
\* result record, whose status is success exactly when runWorkflow returned
\* true and whose exit code is the context's lastExitCode.
C19_ResultRecordLast ==
    RunEnded
    => /\ ResultRecords = {Len(journal)}
       /\ Len(journal) > 0
       /\ journal[Len(journal)].payload.status
             = (IF run.success THEN "success" ELSE "failed")
       /\ journal[Len(journal)].payload.codexExitCode = ctx.lastExitCode


\* The path names a value of the data: every segment is a property the object
\* reached so far has itself
RECURSIVE Names(_, _)
Names(cur, segs) ==
    \/ segs = <<>>
    \/ /\ cur.t = "object"
       /\ HasKey(cur.v, Head(segs))
       /\ Names(Lookup(cur.v, Head(segs)), Tail(segs))

\* The placeholders of a text, from position p on
RECURSIVE PlaceholdersFrom(_, _)
PlaceholdersFrom(s, p) ==
    IF p > Len(s) THEN {}
    ELSE LET m == PlaceholderAt(s, p)
         IN  IF m = <<>> THEN PlaceholdersFrom(s, p + 1)
             ELSE {m[1]} \cup PlaceholdersFrom(s, m[2])

\* The text with every placeholder taken out
RECURSIVE WithoutPlaceholders(_, _)
WithoutPlaceholders(s, p) ==
    IF p > Len(s) THEN <<>>
    ELSE LET m == PlaceholderAt(s, p)
         IN  IF m = <<>> THEN <<s[p]>> \o WithoutPlaceholders(s, p + 1)
             ELSE WithoutPlaceholders(s, m[2])

Renderings == {k \in 1..Len(hist) : hist[k].e = "prompt"}

\* C20: a placeholder whose dotted path names nothing in the template data
\* (first segment missing, nested segment missing, or a segment looked up in a
\* value that is not an object) is replaced by the empty string: a text whose
\* placeholders all fail to resolve is rendered as the text without them.
C20_UnresolvedRendersEmpty ==
    \A k \in Renderings :
        LET tpl == wf[1].prompt.v
            data == templateData(hist[k].ctx0)
        IN  (\A path \in PlaceholdersFrom(tpl, 1) : ~Names(data, SplitDots(path)))
            => hist[k].res.v = WithoutPlaceholders(tpl, 1)

\* C20 for the paths that name no property of Object.prototype either
C20_EmptyUnlessInherited ==
    \A k \in Renderings :
        LET tpl == wf[1].prompt.v
            data == templateData(hist[k].ctx0)
        IN  (\A path \in PlaceholdersFrom(tpl, 1) :
                /\ ~Names(data, SplitDots(path))
                /\ \A i \in 1..Len(SplitDots(path)) :
                      SplitDots(path)[i] \notin {K_constructor, K_toString})
            => hist[k].res.v = WithoutPlaceholders(tpl, 1)

C20_Witness ==
    \E k \in Renderings :
        /\ wf[1].prompt.v = <<"a">> \o Placeholder(Dotted(<<K_last_exit_code, <<"x">>>>), <<" ">>)
                            \o <<"b">>
        /\ hist[k].ctx0.lastExitCode = Null
        /\ hist[k].res.v = <<"a", "b">>


\* The first successful attempt of the call that the return at k ends
Successes(k) == {x \in ResultsOf(k) : hist[x].res.success}
FirstSuccess(k) == CHOOSE x \in Successes(k) : \A y \in Successes(k) : x <= y

\* C21: a non-repeat step whose first successful attempt is attempt m makes
\* exactly m attempts (m <= retries + 1), starts no attempt after the
\* successful one, and returns that attempt's result.
C21_StopsAtFirstSuccess ==
    \A k \in Returns :
        (StepAt(hist[k].path).type # "repeat" /\ Successes(k) # {}) =>
            LET x == FirstSuccess(k)
                m == hist[x].n
            IN  /\ LeqPlus(m, RetryCount(StepAt(hist[k].path)), 1)
                /\ {hist[a].n : a \in AttemptsOf(k)} = 1..m
                /\ Cardinality(AttemptsOf(k)) = m
                /\ \A a \in AttemptsOf(k) : a < x
                /\ hist[k].res = hist[x].res

\* A step has failed once, succeeded at its second attempt and returned
C21_Witness ==
    \E k \in Returns :
        /\ StepAt(hist[k].path).type # "repeat"
        /\ Successes(k) # {}
        /\ hist[FirstSuccess(k)].n = 2
        /\ hist[k].res.success


\* A repeat step without until-expression and with nested steps, whose guard
\* did not skip it, has returned
PlainRepeatReturned(k) ==
    LET step == StepAt(hist[k].path)
    IN  /\ step.type = "repeat"
        /\ ~Truthy(step.until)
        /\ step.steps # <<>>
        /\ ~GuardWasFalse(k)
\* The start of the last round of the call that the return at k ends
FinalRound(k) == CHOOSE x \in RoundsOf(k) : \A y \in RoundsOf(k) : y <= x
\* The returns of the nested steps handed to execStep in that round
FinalRoundReturns(k) == {x \in ChildReturnsOf(k) : x > FinalRound(k)}

\* C22: a repeat step with no until-expression and a non-empty nested list
\* returns the success flag of the last nested step executed in the final
\* round, which is round number max_rounds. (Executed: handed to execStep; a
\* nested step skipped by its guard counts with the result of the skip.)
C22_SuccessOfLastNested ==
    \A k \in Returns :
        PlainRepeatReturned(k) =>
            /\ RoundsOf(k) # {}
            /\ Num(hist[FinalRound(k)].n) = RoundBound(StepAt(hist[k].path))
            /\ FinalRoundReturns(k) # {}
            /\ LET x == CHOOSE c \in FinalRoundReturns(k) :
                            \A d \in FinalRoundReturns(k) : d <= c
               IN  hist[k].res.success = hist[x].res.success

\* A repeat step of two rounds and two nested steps has returned success after
\* a first round that a failure ended early
C22_Witness ==
    \E k \in Returns :
        /\ PlainRepeatReturned(k)
        /\ Len(StepAt(hist[k].path).steps) = 2
        /\ Cardinality(RoundsOf(k)) = 2
        /\ Cardinality(ChildReturnsOf(k)) = 3
        /\ Cardinality(FinalRoundReturns(k)) = 2
        /\ hist[k].res.success


\* The returns of the steps nested in a repeat step
ParentPath(x) == SubSeq(hist[x].path, 1, Len(hist[x].path) - 1)
NestedReturns == {x \in 1..Len(hist) : hist[x].e = "return" /\ Len(hist[x].path) > 1}
\* The round of the enclosing repeat step in which the nested step at x returned
RoundOf(x) ==
    LET R == {y \in 1..(x - 1) : hist[y].e = "round" /\ hist[y].path = ParentPath(x)}
    IN  hist[CHOOSE y \in R : \A z \in R : z <= y].n
\* What the enclosing repeat step did after x: its later rounds and its return
LaterOfParent(x) ==
    {y \in (x + 1)..Len(hist) : hist[y].e \in {"round", "return"} /\ hist[y].path = ParentPath(x)}
\* The end of the round of x, or the end of the observation
RoundLimit(x) ==
    IF LaterOfParent(x) = {} THEN Len(hist) + 1
    ELSE CHOOSE y \in LaterOfParent(x) : \A z \in LaterOfParent(x) : y <= z
\* The nested steps handed to execStep after x in the same round
CallsAfter(x) ==
    {c \in (x + 1)..(RoundLimit(x) - 1) :
        hist[c].e = "call" /\ Len(hist[c].path) = Len(hist[x].path)
        /\ SubSeq(hist[c].path, 1, Len(hist[c].path) - 1) = ParentPath(x)}
EndedRound(x) == ~hist[x].res.success /\ ~StepAt(hist[x].path).continue_on_error
IsRoundEnd(r, x) ==
    /\ r.kind = "workflow_round_end"
    /\ r.payload.stepId = StepAt(ParentPath(x)).id
    /\ r.payload.round = RoundOf(x)

\* C23: when a nested step that is not flagged continue_on_error returns
\* failure, no later nested step of that round is executed and the next record
\* appended to the journal is the round's workflow_round_end; a failing nested
\* step flagged continue_on_error is followed by the next nested step.
C23_RoundEndsEarly ==
    \A x \in NestedReturns :
        /\ EndedRound(x) =>
              /\ CallsAfter(x) = {}
              /\ Len(journal) > hist[x].j => IsRoundEnd(journal[hist[x].j + 1], x)
        /\ (/\ ~hist[x].res.success
            /\ StepAt(hist[x].path).continue_on_error
            /\ hist[x].path[Len(hist[x].path)] < Len(StepAt(ParentPath(x)).steps)
            /\ LaterOfParent(x) # {})
           => CallsAfter(x) # {}

\* The control flow of C23 alone, and the round's record among those the
\* workflow engine writes when the repeat step keeps a journal
C23_NoLaterNestedStep ==
    \A x \in NestedReturns :
        /\ EndedRound(x) =>
              /\ CallsAfter(x) = {}
              /\ Records(StepAt(ParentPath(x))) =>
                    LET later == {i \in (hist[x].j + 1)..Len(journal) : journal[i].source = "pm"}
                    IN  later # {} =>
                           IsRoundEnd(journal[CHOOSE i \in later : \A j \in later : i <= j], x)
        /\ (/\ ~hist[x].res.success
            /\ StepAt(hist[x].path).continue_on_error
            /\ hist[x].path[Len(hist[x].path)] < Len(StepAt(ParentPath(x)).steps)
            /\ LaterOfParent(x) # {})
           => CallsAfter(x) # {}


\* The attempts that have ended, by the position of their result
AttemptResults == {x \in 1..Len(hist) : hist[x].e = "result"}
\* The beginning of the attempt whose result is at x
AttemptOf(x) ==
    LET A == {a \in 1..(x - 1) : hist[a].e = "attempt" /\ hist[a].path = hist[x].path
                                  /\ hist[a].n = hist[x].n}
    IN  CHOOSE a \in A : \A b \in A : b <= a
\* The records of a kind appended during the attempt whose result is at x
WrittenDuringAttempt(x, kind) ==
    {i \in (hist[AttemptOf(x)].j + 1)..hist[x].j : journal[i].kind = kind}

\* C24: when runVerify has returned to a verify step (its verify_end record
\* tells the command and the code of the outcome), the Run Context holds that
\* outcome in verify, its code in lastExitCode, and the attempt's result is
\* success exactly when the outcome is passed or skipped.
C24_VerifyOutcomeStored ==
    \A x \in AttemptResults :
        StepAt(hist[x].path).type = "verify" =>
            \A i \in WrittenDuringAttempt(x, "verify_end") :
                LET end == journal[i].payload
                    c == hist[x].ctx
                IN  /\ c.verify.code = end.code
                    /\ c.verify.command = end.command
                    /\ c.verify.passed = (end.code = Num(0))
                    /\ c.verify.skipped = (end.code = Null)
                    /\ c.lastExitCode = end.code
                    /\ hist[x].res.exitCode = end.code
                    /\ hist[x].res.detail = c.verify.reason
                    /\ hist[x].res.success = (c.verify.passed \/ c.verify.skipped)

\* A verify step has succeeded on a skipped verification, another run's has
\* failed on a verification that did not pass
C24_Witness ==
    \E x \in AttemptResults :
        /\ StepAt(hist[x].path).type = "verify"
        /\ WrittenDuringAttempt(x, "verify_end") # {}
        /\ \/ hist[x].ctx.verify.skipped /\ hist[x].res.success
           \/ ~hist[x].ctx.verify.passed /\ ~hist[x].ctx.verify.skipped /\ ~hist[x].res.success


\* The commands that resolved during the attempt whose result is at x
ResolvedDuringAttempt(x) ==
    {r \in (AttemptOf(x) + 1)..(x - 1) : hist[r].e = "resolved" /\ hist[r].path = hist[x].path}

\* C25: an attempt of a shell or codex step whose command has resolved is a
\* success exactly when the command's exit code is 0 (a non-zero code, the
\* spawn-failure code and a null code are failures), its result carries that
\* code, and the Run Context's lastExitCode is that code.
C25_SuccessIffExitZero ==
    \A x \in AttemptResults :
        StepAt(hist[x].path).type \in {"shell", "codex"} =>
            \A r \in ResolvedDuringAttempt(x) :
                LET code == hist[r].res.exitCode
                IN  /\ hist[x].res.success = (code = Num(0))
                    /\ hist[x].res.exitCode = code
                    /\ hist[x].ctx.lastExitCode = code

\* An attempt whose process was killed by a signal (null code) has failed
C25_Witness ==
    \E x \in AttemptResults :
        /\ StepAt(hist[x].path).type \in {"shell", "codex"}
        /\ \E r \in ResolvedDuringAttempt(x) : hist[r].res.exitCode = Null
        /\ ~hist[x].res.success
        /\ hist[x].ctx.lastExitCode = Null


\* The records execSingleStep and what it calls await: a failure of one of
\* these writes is an exception raised inside the attempt
AttemptKinds == {"command_start", "file_write", "verify_start", "verify_skip",
                 "verify_end", "report"}
\* An exception was raised in the attempt whose result is at x: a step without
\* what its type requires, or a write of the attempt that failed
RaisedInAttempt(x) ==
    LET step == StepAt(hist[x].path)
    IN  \/ IsCodexWithoutPrompt(step)
        \/ step.type = "shell" /\ ~Truthy(step.command)
        \/ \E w \in (AttemptOf(x) + 1)..(x - 1) :
              /\ hist[w].e = "write_failed"
              /\ hist[w].res.detail.v[1] \in AttemptKinds
Aborts == {b \in 1..Len(hist) : hist[b].e = "abort"}
\* The write whose failure raised the exception that aborted the run at b
FailedWriteBefore(b) ==
    LET W == {w \in 1..(b - 1) : hist[w].e = "write_failed"}
    IN  hist[CHOOSE w \in W : \A v \in W : v <= w].res.detail.v[1]

\* C26: an exception raised while an attempt of a non-repeat step executes is
\* caught: the attempt's result is success = false with the error text as
\* detail (exit code 1), exactly one workflow_step_error record naming the step
\* and the attempt is appended during the attempt, before any workflow_step_end
\* of it, the next attempt still runs while retries remain, and no run is
\* aborted by such an exception.
C26_ExceptionCaught ==
    /\ \A x \in AttemptResults :
          LET step == StepAt(hist[x].path)
              errs == WrittenDuringAttempt(x, "workflow_step_error")
              ends == WrittenDuringAttempt(x, "workflow_step_end")
          IN  /\ RaisedInAttempt(x) => Cardinality(errs) = 1
              /\ \A i \in errs :
                    /\ journal[i].payload.stepId = step.id
                    /\ journal[i].payload.attempt = hist[x].n
                    /\ ~hist[x].res.success
                    /\ hist[x].res.exitCode = Num(1)
                    /\ hist[x].res.detail = Text(<<journal[i].payload.message>>)
                    /\ ends = {}
    /\ \A k \in Returns :
          \A x \in ResultsOf(k) :
              (/\ WrittenDuringAttempt(x, "workflow_step_error") # {}
               /\ LeqPlus(hist[x].n, RetryCount(StepAt(hist[k].path)), 0))
              => \E a \in AttemptsOf(k) : hist[a].n = hist[x].n + 1
    /\ \A b \in Aborts :
          LET message == hist[b].res.detail.v[1]
          IN  \/ message = "repeat step requires max_rounds > 0"
              \/ /\ message = "EIO: appendFile"
                 /\ FailedWriteBefore(b) \notin AttemptKinds

\* A step with retries whose first attempt raised an exception has made a
\* second attempt and returned
C26_Witness ==
    \E k \in Returns :
        \E x \in ResultsOf(k) :
            /\ hist[x].n = 1
            /\ WrittenDuringAttempt(x, "workflow_step_error") # {}
            /\ \E a \in AttemptsOf(k) : hist[a].n = 2


StepStarts == {i \in 1..Len(journal) : journal[i].kind = "workflow_step_start"}
StepEnds == {i \in 1..Len(journal) : journal[i].kind = "workflow_step_end"}
\* The workflow_step_end records that match the workflow_step_start record at i
MatchingEnds(i) ==
    {e \in StepEnds : /\ e > i
                     /\ journal[e].payload.stepId = journal[i].payload.stepId
                     /\ journal[e].payload.attempt = journal[i].payload.attempt}
\* The result of the attempt that began with the record at i
ResultAfterStart(i) ==
    LET X == {x \in AttemptResults :
                 /\ hist[AttemptOf(x)].j = i
                 /\ StepAt(hist[x].path).id = journal[i].payload.stepId
                 /\ hist[x].n = journal[i].payload.attempt}
    IN  hist[CHOOSE x \in X : \A y \in X : x <= y].res
\* Up to the next workflow_step_start, the only workflow_step_end after the
\* record at i is the one of the same step and attempt, it is there before
\* another attempt starts, and it carries the attempt's success and exit code
PairedAt(i) ==
    LET later == {j \in StepStarts : j > i}
        limit == IF later = {} THEN Len(journal) + 1
                 ELSE CHOOSE j \in later : \A l \in later : j <= l
        ends == {e \in StepEnds : i < e /\ e < limit}
    IN  /\ Cardinality(ends) <= 1
        /\ ends \subseteq MatchingEnds(i)
        /\ later # {} => ends # {}
        /\ \A e \in ends :
              /\ journal[e].payload.success = ResultAfterStart(i).success
              /\ journal[e].payload.exitCode = ResultAfterStart(i).exitCode
C27_Paired == \A i \in StepStarts : PairedAt(i)

JournalCount(kind, id, n) ==
    Cardinality({i \in 1..Len(journal) :
                    /\ journal[i].kind = kind
                    /\ journal[i].payload.stepId = id
                    /\ journal[i].payload.attempt = n})
StepIds == {"s1", "s2"}

\* C27: every workflow_step_start record of an attempt is followed by exactly
\* one workflow_step_end record with the same stepId and attempt number, which
\* carries the attempt's success flag and exit code, and no other
\* workflow_step_start is appended between the two.
C27_StartThenEnd ==
    /\ []C27_Paired
    /\ \A id \in StepIds : \A n \in 1..(MaxRetries + 1) :
          (JournalCount("workflow_step_start", id, n) > JournalCount("workflow_step_end", id, n))
          ~> (JournalCount("workflow_step_start", id, n) = JournalCount("workflow_step_end", id, n))

\* Two attempts of a step have each written their start and end record
C27_Witness ==
    /\ JournalCount("workflow_step_start", "s1", 2) = 1
    /\ JournalCount("workflow_step_end", "s1", 2) = 1
    /\ C27_Paired
    /\ \E e \in StepEnds : ~journal[e].payload.success /\ journal[e].payload.attempt = 1


\* The steps of a list and of the lists nested in it
RECURSIVE AllSteps(_)
AllSteps(steps) ==
    UNION {{steps[i]} \cup AllSteps(steps[i].steps) : i \in 1..Len(steps)}
\* The ids of the steps that suppress their journal records
Suppressed == {st.id : st \in {t \in AllSteps(wf) : ~Records(t)}}
RecordsAbout(kinds, ids) ==
    {i \in 1..Len(journal) : journal[i].kind \in kinds /\ journal[i].payload.stepId \in ids}

\* C28: a step with record: false appends no workflow_step_start,
\* workflow_step_end, workflow_step_error, workflow_step_skip,
\* workflow_round_start or workflow_round_end record for itself, whatever its
\* outcome.
C28_SuppressedStepIsSilent ==
    RecordsAbout({"workflow_step_start", "workflow_step_end", "workflow_step_error",
                  "workflow_step_skip", "workflow_round_start", "workflow_round_end"},
                 Suppressed) = {}

\* C28 without the error record
C28_SilentButForErrors ==
    RecordsAbout({"workflow_step_start", "workflow_step_end",
                  "workflow_step_skip", "workflow_round_start", "workflow_round_end"},
                 Suppressed) = {}


Evaluations == {k \in 1..Len(hist) : hist[k].e = "cond"}
\* The rendered and trimmed text of the expression evaluated at k
Rendered(k) == Trim(renderTemplate(wf[1].if.v, templateData(hist[k].ctx0)))
\* Where a two-character operator occurs in a text
Occurrences(s, a, b) == {p \in 1..(Len(s) - 1) : s[p] = a /\ s[p + 1] = b}
First(P) == CHOOSE p \in P : \A q \in P : p <= q
Before(s, p) == SubSeq(s, 1, p - 1)
After(s, p) == SubSeq(s, p + 2, Len(s))

\* C29: if the rendered text contains == anywhere, the result is the equality
\* of the tokens before and after the first ==; otherwise, if it contains !=,
\* the inequality of the tokens around the first !=; otherwise the truthiness
\* of the single token. Quotes play no part in the choice.
C29_OperatorPriority ==
    \A k \in Evaluations :
        LET s == Rendered(k)
            data == templateData(hist[k].ctx0)
            eqs == Occurrences(s, "=", "=")
            nes == Occurrences(s, "!", "=")
            tok(t) == parseCondToken(t, data)
        IN  hist[k].res.success =
               IF eqs # {}
               THEN StrictEq(tok(Before(s, First(eqs))), tok(After(s, First(eqs))))
               ELSE IF nes # {}
               THEN ~StrictEq(tok(Before(s, First(nes))), tok(After(s, First(nes))))
               ELSE Truthy(tok(s))

\* 'a==b'!='a==b' was split at the == inside the first literal and found true
C29_Witness ==
    \E k \in Evaluations :
        /\ wf[1].if.v = <<"'", "a", "=", "=", "b", "'", "!", "=", "'", "a", "=", "=", "b", "'">>
        /\ hist[k].res.success

\* The value of a token: a quoted literal is the text between its quotes; then
\* the words true, false and null; then a numeric literal; anything else is
\* looked up as a path in the data
IsQuotedBy(t, q) == t # <<>> /\ t[1] = q /\ t[Len(t)] = q
Classify(token, data) ==
    LET t == Trim(token)
    IN  CASE IsQuotedBy(t, "'") \/ IsQuotedBy(t, "\"") -> Str(SubSeq(t, 2, Len(t) - 1))
          [] OTHER ->
             CASE t = <<"t", "r", "u", "e">> -> Bool(TRUE)
               [] t = <<"f", "a", "l", "s", "e">> -> Bool(FALSE)
               [] OTHER ->
                  CASE t = <<"n", "u", "l", "l">> -> Null
                    [] OTHER ->
                       CASE IsIntLiteral(t) \/ IsDecimalLiteral(t) -> ToNumber(t)
                         [] OTHER -> getByPath(data, t)
\* Equal without coercion: the same kind of value and the same value
SameValue(a, b) == a.t = b.t /\ a.v = b.v
\* undefined, null, false, 0 and the empty string
Falsy(a) ==
    \/ a \in {Undefined, Null, Bool(FALSE), Str(<<>>)}
    \/ a.t = "number" /\ a.v[2] = 0 /\ a.v[3] = <<>>

\* C30: each token is classified as a quoted literal, else true/false, else
\* null, else a numeric literal, else a path lookup; == and != compare the
\* classified values without coercion; a single token is false exactly when
\* its value is undefined, null, false, 0 or the empty string.
C30_TokenClasses ==
    \A k \in Evaluations :
        LET s == Rendered(k)
            data == templateData(hist[k].ctx0)
            eqs == Occurrences(s, "=", "=")
            nes == Occurrences(s, "!", "=")
            val(t) == Classify(t, data)
        IN  hist[k].res.success =
               IF eqs # {}
               THEN SameValue(val(Before(s, First(eqs))), val(After(s, First(eqs))))
               ELSE IF nes # {}
               THEN ~SameValue(val(Before(s, First(nes))), val(After(s, First(nes))))
               ELSE ~Falsy(val(s))

\* 1=='1' was found false
C30_Witness ==
    \E k \in Evaluations :
        /\ wf[1].if.v = <<"1", "=", "=", "'", "1", "'">>
        /\ ~hist[k].res.success


\* The child of invocation n has had its 'close' or its 'error' event
TerminalEvent(n) == cmds[n].closeEv \/ cmds[n].errorEv

\* C31: the timeout never settles the invocation by itself: an invocation is
\* settled only once the child's 'close' or 'error' event has occurred (a
\* timed-out invocation without such an event is still waiting), and a
\* timed-out invocation whose child has had that event is eventually settled.
C31_TimeoutDoesNotSettle ==
    /\ [](\A n \in 1..Len(cmds) : cmds[n].settled => TerminalEvent(n))
    /\ \A n \in 1..MaxCommands :
          (Len(cmds) >= n /\ cmds[n].timedOut /\ TerminalEvent(n))
          ~> (Len(cmds) >= n /\ cmds[n].settled)

\* A timed-out command whose process was killed has been settled by its 'close'
C31_Witness ==
    \E n \in 1..Len(cmds) :
        /\ cmds[n].timedOut /\ cmds[n].killed /\ cmds[n].closeEv
        /\ cmds[n].settled
        /\ cmds[n].result.timedOut


Resolutions == {r \in 1..Len(hist) : hist[r].e = "resolved"}

\* C32: when runCommandWithLogging returns its result, every record of that
\* invocation is in the journal: no record carrying its commandId is appended
\* after the result was returned.
C32_NoRecordAfterResult ==
    \A r \in Resolutions :
        \A i \in RecordsOf(cmds[hist[r].n].commandId, CommandKinds6) : i <= hist[r].j


\* The nested returns of the call ending at k that ended a round before the last
FailedEarlyRound(k) ==
    {x \in ChildReturnsOf(k) :
        /\ EndedRound(x)
        /\ LeqPlus(RoundOf(x), RoundBound(StepAt(hist[k].path)), -1)}
UntilMetAfter(k, i) == \E u \in UntilsOf(k) : hist[u].n = i /\ hist[u].res.success

\* C33: a nested non-tolerant failure in round i < bound does not end the
\* repeat step: the until-expression is evaluated after round i, and unless it
\* is true round i + 1 is started.
C33_FailureEndsOnlyTheRound ==
    \A k \in Returns :
        StepAt(hist[k].path).type = "repeat" =>
            \A x \in FailedEarlyRound(k) :
                /\ \E u \in UntilsOf(k) : hist[u].n = RoundOf(x) /\ u > x
                /\ \/ UntilMetAfter(k, RoundOf(x))
                   \/ \E y \in RoundsOf(k) : hist[y].n = RoundOf(x) + 1 /\ y > x

\* A repeat step whose first round a nested failure ended has run its second
\* round and returned
C33_Witness ==
    \E k \in Returns :
        /\ StepAt(hist[k].path).type = "repeat"
        /\ \E x \in FailedEarlyRound(k) :
              /\ RoundOf(x) = 1
              /\ ~UntilMetAfter(k, 1)
              /\ \E y \in RoundsOf(k) : hist[y].n = 2


NestedCalls == {x \in 1..Len(hist) : hist[x].e = "call" /\ Len(hist[x].path) > 1}
UntilTests == {u \in 1..Len(hist) : hist[u].e = "until"}

\* C34: when a repeat step evaluates its until-expression after round i the
\* Run Context's round number is i, and every nested step handed to execStep
\* in round i finds round = i, also below another repeat step.
C34_RoundNumberIsTheRound ==
    /\ \A u \in UntilTests : hist[u].ctx.round = hist[u].n
    /\ \A x \in NestedCalls : hist[x].ctx.round = RoundOf(x)

\* C34 for repeat steps whose nested list holds no repeat step
C34_RoundNumberWithoutNesting ==
    /\ \A u \in UntilTests :
          ~HasNestedRepeat(StepAt(hist[u].path)) => hist[u].ctx.round = hist[u].n
    /\ \A x \in NestedCalls :
          ~HasNestedRepeat(StepAt(ParentPath(x))) => hist[x].ctx.round = RoundOf(x)


\* C35: the timedOut value of an invocation's command_end record equals the
\* timedOut flag of the CommandResult returned for that invocation.
C35_TimedOutAgrees ==
    \A n \in 1..Len(cmds) :
        cmds[n].settled =>
            \A i \in RecordsOf(cmds[n].commandId, {"command_end"}) :
                journal[i].payload.timedOut = cmds[n].result.timedOut



\* The attempts of verify steps to which runVerify has returned an outcome
VerifyResults ==
    {x \in AttemptResults : /\ StepAt(hist[x].path).type = "verify"
                            /\ WrittenDuringAttempt(x, "verify_end") # {}}

\* C36: the outcome of runVerify has skipped = true only when no verification
\* command was run and a verify_skip record was appended; passed and skipped
\* are never both true; when a verification command was run and the outcome is
\* not passed, skipped is false.
C36_SkippedMeansNothingRan ==
    \A x \in VerifyResults :
        LET outcome == hist[x].ctx.verify
            ran == WrittenDuringAttempt(x, "command_start") # {}
        IN  /\ outcome.skipped =>
                  /\ ~ran
                  /\ WrittenDuringAttempt(x, "verify_skip") # {}
            /\ ~(outcome.passed /\ outcome.skipped)
            /\ (ran /\ outcome.code # Num(0)) => (~outcome.passed /\ ~outcome.skipped)

\* C36 for the verification commands that end with an exit code
C36_SkippedUnlessSignalled ==
    \A x \in VerifyResults :
        LET outcome == hist[x].ctx.verify
            ran == WrittenDuringAttempt(x, "command_start") # {}
        IN  /\ ~(outcome.passed /\ outcome.skipped)
            /\ outcome.code # Null =>
                  /\ ~outcome.skipped
                  /\ ran
                  /\ outcome.passed = (outcome.code = Num(0))
            /\ ~ran => (outcome.skipped /\ WrittenDuringAttempt(x, "verify_skip") # {})


\* The step that changes lastExitCode is the end of execSingleStep for a
\* codex, shell or verify step whose command or verification has completed
CompletesCommandStep ==
    /\ stack # <<>>
    /\ \/ Top.pc = "exec_done" /\ StepAt(Top.path).type \in {"shell", "codex"}
       \/ Top.pc = "rv_ret" /\ StepAt(Top.path).type = "verify"
\* The position of the result of the last attempt of the step returning at k
LastResultAt(k) == CHOOSE x \in ResultsOf(k) : \A y \in ResultsOf(k) : y <= x
\* The attempt whose result is at x left lastExitCode as it found it
AttemptKeptExitCode(x) == hist[x].ctx.lastExitCode = hist[AttemptOf(x)].ctx.lastExitCode
ExitCodeKept ==
    /\ \A x \in AttemptResults :
          (\/ StepAt(hist[x].path).type \notin {"shell", "codex", "verify"}
           \/ WrittenDuringAttempt(x, "workflow_step_error") # {})
          => AttemptKeptExitCode(x)
    /\ \A k \in Returns :
          LET step == StepAt(hist[k].path)
          IN  /\ GuardWasFalse(k) =>
                    /\ hist[k].ctx.lastExitCode = hist[CallOf(k)].ctx.lastExitCode
                    /\ hist[k].res.exitCode = hist[k].ctx.lastExitCode
              /\ (step.type = "repeat" /\ ~GuardWasFalse(k)) =>
                    hist[k].res.exitCode = hist[k].ctx.lastExitCode
              /\ (step.type # "repeat" /\ ResultsOf(k) # {}) =>
                    hist[k].ctx.lastExitCode = hist[LastResultAt(k)].ctx.lastExitCode

\* C37: lastExitCode is changed only by a completed attempt of a codex, shell
\* or verify step; a guard skip, a report step, a step of unsupported kind, an
\* attempt that raises an exception and the continue-on-error override leave
\* it unchanged, and a repeat step returns the value current at its end.
C37_OnlyCommandsSetExitCode ==
    /\ [][ctx'.lastExitCode # ctx.lastExitCode => CompletesCommandStep]_vars
    /\ []ExitCodeKept

\* A report step has returned exit code 0 and lastExitCode is still null
C37_Witness ==
    \E k \in Returns :
        /\ StepAt(hist[k].path).type = "report"
        /\ ResultsOf(k) # {}
        /\ hist[k].res.exitCode = Num(0)
        /\ hist[k].ctx.lastExitCode = Null


\* The returns of the repeat steps flagged continue_on_error that ran
TolerantRepeatReturns ==
    {k \in Returns :
        /\ StepAt(hist[k].path).type = "repeat"
        /\ StepAt(hist[k].path).continue_on_error
        /\ ~GuardWasFalse(k)}
\* What the rounds of the repeat step returning at k amount to: the until test
\* when one is declared, else the last nested step handed to execStep
RepeatSucceeded(k) ==
    IF Truthy(StepAt(hist[k].path).until)
    THEN \E u \in UntilsOf(k) : hist[u].res.success
    ELSE \/ ChildReturnsOf(k) = {}
         \/ LET x == CHOOSE c \in ChildReturnsOf(k) : \A d \in ChildReturnsOf(k) : d <= c
            IN  hist[x].res.success
IsOverride(res) ==
    res.detail.t = "string" /\ Head(res.detail.v) = "continue_on_error=true; "
\* The step after the one returning at k in the same list, if there is one
NextSibling(k) ==
    SubSeq(hist[k].path, 1, Len(hist[k].path) - 1) \o <<hist[k].path[Len(hist[k].path)] + 1>>
HasNextSibling(k) ==
    LET n == Len(hist[k].path)
    IN  IF n = 1 THEN hist[k].path[1] < Len(wf)
        ELSE hist[k].path[n] < Len(StepAt(ParentPath(k)).steps)
\* The list that holds the step returning at k has moved past it
ListWentOn(k) ==
    IF Len(hist[k].path) = 1 THEN RunWorkflowReturned /\ Aborts = {}
    ELSE LaterOfParent(k) # {}
NoTopLevelStop ==
    \A i \in 1..Len(TopReturns) : ~FailedIntolerant(i)

\* C38: a failing repeat step flagged continue_on_error returns success = false
\* with no override annotation; the enclosing runner or round nevertheless
\* starts the next step, and the run returns true when no step that is not
\* flagged continue_on_error fails.
C38_TolerantRepeatNotOverridden ==
    /\ \A k \in TolerantRepeatReturns :
          /\ hist[k].res.success = RepeatSucceeded(k)
          /\ ~IsOverride(hist[k].res)
          /\ (~hist[k].res.success /\ HasNextSibling(k) /\ ListWentOn(k))
             => \E c \in (k + 1)..Len(hist) :
                    /\ hist[c].e = "call" /\ hist[c].path = NextSibling(k)
                    /\ c < RoundLimit(k)
    /\ (RunWorkflowReturned /\ Aborts = {} /\ NoTopLevelStop) => run.success

\* A top-level repeat step flagged continue_on_error has returned failure, the
\* next step has run and runWorkflow has returned true
C38_Witness ==
    /\ RunWorkflowReturned /\ run.success
    /\ \E k \in TolerantRepeatReturns :
          /\ Len(hist[k].path) = 1
          /\ ~hist[k].res.success
          /\ \E c \in (k + 1)..Len(hist) : hist[c].e = "return" /\ hist[c].path = NextSibling(k)

\* A nested repeat step flagged continue_on_error has returned failure and the
\* next nested step of the round has been handed to execStep
C38_NestedWitness ==
    \E k \in TolerantRepeatReturns :
        /\ Len(hist[k].path) = 2
        /\ ~hist[k].res.success
        /\ \E c \in CallsAfter(k) : hist[c].path = NextSibling(k)


\* The returns of the non-repeat steps whose guard did not skip them
RetriedReturns ==
    {k \in Returns : StepAt(hist[k].path).type # "repeat" /\ ~GuardWasFalse(k)}
\* max(0, retries) + 1 for a declared number, an absent value counting as 0
AttemptLimit(step) ==
    LET r == Coalesce(step.retries, Num(0))
    IN  IF r.t = "number" /\ ~r.v[1] THEN r.v[2] + 1 ELSE 1
IsNegative(x) == x.t = "number" /\ x.v[1]

\* C39 (as stated): for every declared retries value, not-a-number included, a
\* non-repeat step that its guard does not skip is attempted at least once and
\* at most max(0, retries) + 1 times; a negative value gives exactly one attempt.
C39_AttemptCount ==
    \A k \in RetriedReturns :
        LET step == StepAt(hist[k].path)
            n == Cardinality(AttemptsOf(k))
        IN  /\ n >= 1
            /\ n <= AttemptLimit(step)
            /\ IsNegative(step.retries) => n = 1

\* The same bounds for the retries values that Number() turns into a number
C39_AttemptCountOfNumbers ==
    \A k \in RetriedReturns :
        LET step == StepAt(hist[k].path)
            n == Cardinality(AttemptsOf(k))
        IN  JsNumber(Coalesce(step.retries, Num(0))).t = "number" =>
                /\ n >= 1
                /\ n <= AttemptLimit(step)
                /\ IsNegative(step.retries) => n = 1


\* runWorkflow has returned, or has been left by an exception
RunWorkflowEnded == RunWorkflowReturned \/ run.pc = "aborted"
\* The rounds a repeat step can make: its bound, or none when execStep throws
RoundsOfStep(step) ==
    LET rounds == RoundBound(step) IN IF IsPositive(rounds) THEN rounds.v[2] ELSE 0
\* retries + 1 of the declared value, an absent value counting as 0
DeclaredAttempts(step) ==
    LET r == JsNumber(Coalesce(step.retries, Num(0)))
    IN  IF r.t # "number" THEN 0 ELSE IF r.v[1] THEN 1 - r.v[2] ELSE r.v[2] + 1
\* max(0, retries) + 1, and no attempt for a value that is not a number
EffectiveAttempts(step) ==
    LET r == RetryCount(step) IN IF r.t # "number" THEN 0 ELSE r.v[2] + 1
\* The sum over the steps of a list of the attempts of each, multiplied by the
\* round bounds of the enclosing repeat steps
RECURSIVE AttemptBound(_, _)
AttemptBound(steps, declared) ==
    IF steps = <<>> THEN 0
    ELSE LET step == Head(steps)
             own == IF step.type = "repeat"
                    THEN RoundsOfStep(step) * AttemptBound(step.steps, declared)
                    ELSE IF declared THEN DeclaredAttempts(step)
                    ELSE EffectiveAttempts(step)
         IN  own + AttemptBound(Tail(steps), declared)
TotalAttempts == Cardinality({x \in 1..Len(hist) : hist[x].e = "attempt"})

\* C40 (as stated): the number of step attempts of a run is at most the sum
\* over the steps of (declared retries + 1) multiplied by the round bounds of
\* the enclosing repeat steps.
C40_AttemptsWithinDeclaredBound == TotalAttempts <= AttemptBound(wf, TRUE)

\* C40 (amended): when every spawned process closes or errors and every
\* journal write completes, runWorkflow ends, and the number of step attempts
\* is at most the sum over the steps of max(0, retries) + 1 multiplied by the
\* round bounds of the enclosing repeat steps.
C40_TerminatesWithinBound ==
    /\ [](TotalAttempts <= AttemptBound(wf, FALSE))
    /\ <>RunWorkflowEnded

\* A run of a two-round repeat step over a nested step with one retry, then a
\* second step, has ended after as many attempts as the bound allows
C40_Witness ==
    /\ RunWorkflowEnded
    /\ wf[1].type = "repeat" /\ RoundsOfStep(wf[1]) = 2
    /\ TotalAttempts = 5
    /\ TotalAttempts = AttemptBound(wf, FALSE)

=============================================================================
